---- MODULE Spec2Model ----
(***************************************************************************)
(* Model of the X-TRI answer-sheet recognition service                     *)
(* (python_omr_service): the two answer classifiers, the sheet-code        *)
(* validator, the QR reader with fallback, the detected-grid (Hough) and   *)
(* fixed-grid (legacy) strategies, the process_omr orchestrator and the    *)
(* sheet handlers.                                                         *)
(*                                                                         *)
(* Conventions.                                                            *)
(*  - Darkness percentages are integers in hundredths of a percent         *)
(*    (0..100 * Unit), so that round(darkness, 1) does something.          *)
(*  - A Python str is a sequence of one-character strings; an optional     *)
(*    str is the record [none, text] (None is [none |-> TRUE]).            *)
(*  - An answer is "A".."E", "X" (double mark of the fixed-grid reader)    *)
(*    or "None" (Python None).                                             *)
(*  - What the OpenCV / pyzbar primitives compute on an image is a field   *)
(*    of the image descriptor: a primitive is a deterministic function of  *)
(*    the pixels, and the pixels are the input.                            *)
(***************************************************************************)
EXTENDS Integers, Sequences, FiniteSets, TLC

VARIABLES
    \* ---- sheet-code validation (validate_sheet_code, both modules)
    v_pc,        \* "in" | "done"
    v_code,      \* the argument: an optional str
    v_app,       \* result of app.validate_sheet_code
    v_qr,        \* result of qr_reader_module.validate_sheet_code
    \* ---- answer classification (read_question / detect_answer)
    c_pc,        \* "in" | "done"
    c_dark,      \* 5 darkness values, options A..E in order
    c_rq,        \* result of read_question
    c_da,        \* result of detect_answer: [answer, warning, stats]
    c_dg,        \* result of the classifier of diagnose_image
    \* ---- the input image of the readers
    img,         \* image descriptor: size and what the primitives see in it
    \* ---- qr_reader_module.read_qr_with_fallback
    q_pc,        \* "off" | "loop" | "done"
    q_i,         \* index in `methods` of the next attempt
    q_tried,     \* names of the attempts run so far, in order
    q_res,       \* the returned dict
    \* ---- app.process_omr, one entry per invocation
    use_hough,   \* USE_HOUGH_OMR: whether xtri_gabarito_reader was importable
    p_pc,        \* "off" | "start" | "legacy" | "done"
    p_calls,     \* the strategies run so far, in order
    p_hough,     \* what hough_process_omr returned (or that it raised)
    p_res,       \* the returned dict
    \* ---- app.process_sheet and app.batch_process
    use_qr_module, \* USE_QR_MODULE: whether qr_reader_module was importable
    s_kind,      \* "off" | "process_sheet" | "batch_process"
    s_pc,        \* "off" | "open" | "qr" | "omr" | "done"
    s_files,     \* the uploaded files, in order
    s_idx,       \* index (from 0) of the file being processed
    s_code,      \* sheet_code of the file being processed
    s_results,   \* the list `results` of batch_process
    s_success,   \* success_count
    s_failed,    \* failed_count
    s_saved,     \* the calls of save_omr_result so far, in order
    s_resp,      \* the JSON body returned
    \* ---- app.create_students_batch
    g_pc,        \* "off" | "start" | "done"
    g_client,    \* whether get_supabase() returns a client
    g_students,  \* len(students)
    g_table,     \* sheet codes of the rows of answer_sheet_students
    g_records,   \* the list `records`
    g_ret,       \* the returned list
    \* ---- gabarito_generator.py against app.py
    l_pc,        \* "off" | "in" | "done"
    l_cell,      \* <<col_idx, row_idx, opt_idx>> of a bubble
    l_gen,       \* markers and bubble as gabarito_generator draws them
    l_app,       \* markers and bubble as app.py expects them
    \* ---- app.py calibration: deskew_image and the scale of process_omr_legacy
    a_pc,        \* "off" | "in" | "deskewed" | "done"
    a_img,       \* the image: size, square candidates, lines
    a_markers,   \* what find_corner_markers returned
    a_cal,       \* deskew_image: aligned, and the size of the image returned
    a_scale,     \* scale_x, scale_y of process_omr_legacy (fractions)
    \* ---- app.analyze_bubble_with_search
    b_pc,        \* "off" | "in" | "done"
    b_arg,       \* the arguments: gray, y and the scale
    b_ret,       \* the darkness returned
    \* ---- the process-image handlers, one entry per invocation
    k_host,      \* "off" | "flask" (app.py) | "modal" (modal_app.py)
    k_importable, \* whether xtri_gabarito_reader can be imported
    k_pc,        \* "off" | "request" | "load" | "call" | "legacy" | "done"
    k_file,      \* the upload of the request
    k_debug,     \* the form field `debug` (modal_app.py)
    k_img,       \* the local img_array
    k_resp,      \* the response
    k_env,       \* os.environ['OMR_DEBUG']: "unset" | "true" | "false"
    k_loads,     \* how many times app.py was executed (import and reloads)
    k_steps,     \* the invocations in the order of their steps
    \* ---- detect_bubbles on its own
    d_pc,        \* "off" | "in" | "done"
    d_im,        \* the image
    d_kept,      \* whether the filter keeps the probe circle
    d_grid,      \* len(grid_circles)
    d_rows,      \* the number of circles of each row of `rows`
    d_ret,       \* the list detect_bubbles returns
    \* ---- the round trip of a generated sheet code
    r_pc,        \* "off", "start", "code" or "done"
    r_by,        \* the module whose generate_sheet_code produced the code
    r_code,      \* the generated sheet code
    r_app,       \* validate_sheet_code(r_code) of app.py
    r_qr         \* validate_sheet_code(r_code) of qr_reader_module.py

valVars == <<v_pc, v_code, v_app, v_qr>>
clsVars == <<c_pc, c_dark, c_rq, c_da, c_dg>>
qrVars == <<q_pc, q_i, q_tried, q_res>>
omrVars == <<use_hough, p_pc, p_calls, p_hough, p_res>>
shVars == <<use_qr_module, s_kind, s_pc, s_files, s_idx, s_code, s_results,
            s_success, s_failed, s_saved, s_resp>>
genVars == <<g_pc, g_client, g_students, g_table, g_records, g_ret>>
layVars == <<l_pc, l_cell, l_gen, l_app>>
calVars == <<a_pc, a_img, a_markers, a_cal, a_scale>>
bsVars == <<b_pc, b_arg, b_ret>>
piVars ==
    <<k_host, k_importable, k_pc, k_file, k_debug, k_img, k_resp, k_env,
      k_loads, k_steps>>
dbVars == <<d_pc, d_im, d_kept, d_grid, d_rows, d_ret>>
rtVars == <<r_pc, r_by, r_code, r_app, r_qr>>
vars ==
    <<valVars, clsVars, img, qrVars, omrVars, shVars, genVars, layVars,
      calVars, bsVars, piVars, dbVars, rtVars>>

(***************************************************************************)
(* Python values                                                           *)
(***************************************************************************)
NoneStr == [none |-> TRUE, text |-> <<>>]
Some(t) == [none |-> FALSE, text |-> t]

\* Python truthiness of an optional str: None and '' are falsy.
Truthy(s) == ~s.none /\ Len(s.text) > 0

UpperLetters ==
    {"A", "B", "C", "D", "E", "F", "G", "H", "I", "J", "K", "L", "M",
     "N", "O", "P", "Q", "R", "S", "T", "U", "V", "W", "X", "Y", "Z"}
Digits2to9 == {"2", "3", "4", "5", "6", "7", "8", "9"}

XTRI_PREFIX == <<"X", "T", "R", "I", "-">>
CODE_LEN == 6

(***************************************************************************)
(* SHEET_CODE_PATTERN = re.compile(r'^XTRI-[A-Z2-9]{6}$') and              *)
(* pattern.match(code).  match anchors at position 0; '$' (no MULTILINE)   *)
(* matches at the end of the string and also just before a newline that    *)
(* is the last character of the string.                                    *)
(***************************************************************************)
DollarAt(t, i) ==
    \/ i = Len(t) + 1
    \/ i = Len(t) /\ t[i] = "\n"

\* app.py SHEET_CODE_PATTERN.match(t)
SHEET_CODE_PATTERN_app(t) ==
    /\ Len(t) >= Len(XTRI_PREFIX) + CODE_LEN
    /\ SubSeq(t, 1, Len(XTRI_PREFIX)) = XTRI_PREFIX
    /\ \A i \in 1..CODE_LEN :
          t[Len(XTRI_PREFIX) + i] \in UpperLetters \cup Digits2to9
    /\ DollarAt(t, Len(XTRI_PREFIX) + CODE_LEN + 1)

\* qr_reader_module.py SHEET_CODE_PATTERN.match(t)
SHEET_CODE_PATTERN_qr(t) ==
    /\ Len(t) >= Len(XTRI_PREFIX) + CODE_LEN
    /\ SubSeq(t, 1, Len(XTRI_PREFIX)) = XTRI_PREFIX
    /\ \A i \in 1..CODE_LEN :
          t[Len(XTRI_PREFIX) + i] \in UpperLetters \cup Digits2to9
    /\ DollarAt(t, Len(XTRI_PREFIX) + CODE_LEN + 1)

\* app.py validate_sheet_code
validate_sheet_code_app(code) ==
    IF ~Truthy(code) THEN FALSE ELSE SHEET_CODE_PATTERN_app(code.text)

\* qr_reader_module.py validate_sheet_code
validate_sheet_code_qr(code) ==
    IF ~Truthy(code) THEN FALSE ELSE SHEET_CODE_PATTERN_qr(code.text)

(***************************************************************************)
(* Inputs of the validator: a prefix, a body of up to MaxBody characters   *)
(* (one fill character, one position holding another character) and a     *)
(* suffix; plus the codes the documentation names.                         *)
(***************************************************************************)
MaxBody == 7

CODE_A7B3C9 == <<"X", "T", "R", "I", "-", "A", "7", "B", "3", "C", "9">>
CODE_U6M9R7 == <<"X", "T", "R", "I", "-", "U", "6", "M", "9", "R", "7">>
CODE_ABCD == <<"A", "B", "C", "D", "-", "2", "3", "4", "5", "6", "7">>

Prefixes ==
    {XTRI_PREFIX, <<"A", "B", "C", "D", "-">>, <<"x", "t", "r", "i", "-">>,
     <<"X", "T", "R", "I">>, <<" ", "X", "T", "R", "I", "-">>, <<>>}
FillChars == {"A", "7"}
OddChars == {"Z", "2", "I", "0", "1", "a", "-", "\n", " "}
Suffixes == {<<>>, <<"\n">>, <<" ">>, <<"\n", "\n">>}

Body(n, c, k, o) == [i \in 1..n |-> IF i = k THEN o ELSE c]

CodeTexts ==
    {CODE_A7B3C9, CODE_U6M9R7, CODE_ABCD}
    \cup {p \o Body(n, c, k, o) \o s :
            p \in Prefixes, n \in 0..MaxBody, c \in FillChars,
            k \in 1..MaxBody, o \in OddChars \cup FillChars, s \in Suffixes}

CodeInputs == {NoneStr} \cup {Some(t) : t \in CodeTexts}

ValIdle ==
    /\ v_pc = "off"
    /\ v_code = NoneStr
    /\ v_app = FALSE
    /\ v_qr = FALSE

ValInit ==
    /\ v_pc = "in"
    /\ v_code \in CodeInputs
    /\ v_app = FALSE
    /\ v_qr = FALSE

\* One call of each validator on the same argument.
Validate ==
    /\ v_pc = "in"
    /\ v_pc' = "done"
    /\ v_app' = validate_sheet_code_app(v_code)
    /\ v_qr' = validate_sheet_code_qr(v_code)
    /\ UNCHANGED <<v_code, clsVars, img, qrVars, omrVars, shVars, genVars,
                   layVars, calVars, bsVars, piVars, dbVars, rtVars>>

(***************************************************************************)
(* Answer classification                                                   *)
(***************************************************************************)
Unit == 10 * 10            \* darkness units per percent (hundredths)
Tenth == Unit \div 10      \* darkness units per 0.1 percent

OPTIONS == <<"A", "B", "C", "D", "E">>
NUM_OPTIONS == 5

\* app.py thresholds, in percent
MARKED_THRESHOLD == 38
BLANK_THRESHOLD == 32
RELATIVE_DIFF == 4
DOUBLE_MARK_DIFF == 4
\* xtri_gabarito_reader.py threshold, in percent
FILL_THRESHOLD == 40

\* sorted(options, key=darkness, reverse=True): Python's sort is stable, and
\* with reverse=True equal keys keep their original order.  SortedDesc(o)[k]
\* is the index in o of the entry at position k of the sorted list.
PosDesc(o, i) ==
    1 + Cardinality({j \in DOMAIN o : \/ o[j].darkness > o[i].darkness
                                      \/ (o[j].darkness = o[i].darkness /\ j < i)})
SortedDesc(o) ==
    [k \in 1..Len(o) |-> CHOOSE i \in DOMAIN o : PosDesc(o, i) = k]

\* chr(65 + opt_idx)
Chr65(opt_idx) == <<"A", "B", "C", "D", "E">>[opt_idx + 1]

\* read_question returning 'X' whatever the difference of the two darkest
read_question_doubleAnyDiff(options) ==
    LET sorted_opts == SortedDesc(options)
        best == options[sorted_opts[1]]
        second == options[sorted_opts[2]]
        diff == best.darkness - second.darkness
    IN  IF best.darkness < BLANK_THRESHOLD * Unit THEN "None"
        ELSE IF /\ best.darkness >= MARKED_THRESHOLD * Unit
                /\ second.darkness >= (MARKED_THRESHOLD - 5) * Unit THEN "X"
        ELSE IF /\ best.darkness >= MARKED_THRESHOLD * Unit
                /\ diff >= RELATIVE_DIFF * Unit THEN best.label
        ELSE IF 2 * diff >= RELATIVE_DIFF * Unit * 3 THEN best.label
        ELSE IF best.darkness >= MARKED_THRESHOLD * Unit THEN best.label
        ELSE "None"

\* read_question with the sort's reverse=True left out (ascending order)
read_question_ascending(options) ==
    LET best == options[SortedDesc(options)[Len(options)]]
        second == options[SortedDesc(options)[Len(options) - 1]]
        diff == best.darkness - second.darkness
    IN  IF best.darkness < BLANK_THRESHOLD * Unit THEN "None"
        ELSE IF /\ best.darkness >= MARKED_THRESHOLD * Unit
                /\ second.darkness >= (MARKED_THRESHOLD - 5) * Unit
                /\ diff < DOUBLE_MARK_DIFF * Unit THEN "X"
        ELSE IF /\ best.darkness >= MARKED_THRESHOLD * Unit
                /\ diff >= RELATIVE_DIFF * Unit THEN best.label
        ELSE IF 2 * diff >= RELATIVE_DIFF * Unit * 3 THEN best.label
        ELSE IF best.darkness >= MARKED_THRESHOLD * Unit THEN best.label
        ELSE "None"

\* read_question without the light-mark rule (diff >= RELATIVE_DIFF * 1.5)
read_question_noLightMark(options) ==
    LET sorted_opts == SortedDesc(options)
        best == options[sorted_opts[1]]
        second == options[sorted_opts[2]]
        diff == best.darkness - second.darkness
    IN  IF best.darkness < BLANK_THRESHOLD * Unit THEN "None"
        ELSE IF /\ best.darkness >= MARKED_THRESHOLD * Unit
                /\ second.darkness >= (MARKED_THRESHOLD - 5) * Unit
                /\ diff < DOUBLE_MARK_DIFF * Unit THEN "X"
        ELSE IF best.darkness >= MARKED_THRESHOLD * Unit THEN best.label
        ELSE "None"

\* app.py read_question, from the list `options` of {label, darkness} on:
\* 'A'..'E', 'X' or None
read_question(options) ==
    LET sorted_opts == SortedDesc(options)
        best == options[sorted_opts[1]]
        second == options[sorted_opts[2]]
        diff == best.darkness - second.darkness
    IN  IF best.darkness < BLANK_THRESHOLD * Unit THEN "None"
        ELSE IF /\ best.darkness >= MARKED_THRESHOLD * Unit
                /\ second.darkness >= (MARKED_THRESHOLD - 5) * Unit
                /\ diff < DOUBLE_MARK_DIFF * Unit THEN "X"
        ELSE IF /\ best.darkness >= MARKED_THRESHOLD * Unit
                /\ diff >= RELATIVE_DIFF * Unit THEN best.label
        ELSE IF 2 * diff >= RELATIVE_DIFF * Unit * 3 THEN best.label
        ELSE IF best.darkness >= MARKED_THRESHOLD * Unit THEN best.label
        ELSE "None"

\* the classifier of diagnose_image without `elif diff >= RELATIVE_DIFF * 1.5`
diagnose_image_noLightMark(options) ==
    LET sorted_opts == SortedDesc(options)
        best == options[sorted_opts[1]]
        second == options[sorted_opts[2]]
        diff == best.darkness - second.darkness
    IN  IF best.darkness < BLANK_THRESHOLD * Unit THEN "BLANK"
        ELSE IF /\ best.darkness >= MARKED_THRESHOLD * Unit
                /\ second.darkness >= (MARKED_THRESHOLD - 5) * Unit
        THEN IF diff < DOUBLE_MARK_DIFF * Unit THEN "DOUBLE" ELSE best.label
        ELSE IF /\ best.darkness >= MARKED_THRESHOLD * Unit
                /\ diff >= RELATIVE_DIFF * Unit THEN best.label
        ELSE IF best.darkness >= MARKED_THRESHOLD * Unit THEN best.label
        ELSE "BLANK"

\* diagnose_accuracy.py diagnose_image, the classification of one question
\* from the list `options` of {label, darkness} on: `result`, that is
\* 'BLANK', 'DOUBLE' or the label.  The thresholds are those of app.py.
diagnose_image(options) ==
    LET sorted_opts == SortedDesc(options)
        best == options[sorted_opts[1]]
        second == options[sorted_opts[2]]
        diff == best.darkness - second.darkness
    IN  IF best.darkness < BLANK_THRESHOLD * Unit THEN "BLANK"
        ELSE IF /\ best.darkness >= MARKED_THRESHOLD * Unit
                /\ second.darkness >= (MARKED_THRESHOLD - 5) * Unit
        THEN IF diff < DOUBLE_MARK_DIFF * Unit THEN "DOUBLE" ELSE best.label
        ELSE IF /\ best.darkness >= MARKED_THRESHOLD * Unit
                /\ diff >= RELATIVE_DIFF * Unit THEN best.label
        ELSE IF 2 * diff >= RELATIVE_DIFF * Unit * 3 THEN best.label
        ELSE IF best.darkness >= MARKED_THRESHOLD * Unit THEN best.label
        ELSE "BLANK"

\* round(darkness, 1) on a value in hundredths of a percent.  The inputs of
\* the model never end in 5 hundredths, where Python's float rounding
\* depends on the binary representation.
Round1(x) == ((x + (Tenth \div 2)) \div Tenth) * Tenth

\* detect_answer without the double-mark rule
detect_answer_noDouble(options) ==
    LET unsorted == [i \in DOMAIN options |->
                        [option |-> options[i].option,
                         darkness |-> Round1(options[i].darkness)]]
        order == SortedDesc(unsorted)
        best == unsorted[order[1]]
        second == unsorted[order[2]]
        diff == best.darkness - second.darkness
        stats == [best |-> best.option, darkness |-> best.darkness, diff |-> diff]
    IN  IF best.darkness < FILL_THRESHOLD * Unit
        THEN [answer |-> "None", warning |-> "", stats |-> stats]
        ELSE [answer |-> best.option, warning |-> "", stats |-> stats]

\* xtri_gabarito_reader.py detect_answer, from the darkness analyze_bubble
\* measured for each entry of `options` ({option, darkness}) on:
\* (answer, stats); of stats, the warning ('' when the key is absent), the
\* best option, its rounded darkness and diff.
detect_answer(options) ==
    LET unsorted == [i \in DOMAIN options |->
                        [option |-> options[i].option,
                         darkness |-> Round1(options[i].darkness)]]
        order == SortedDesc(unsorted)
        best == unsorted[order[1]]
        second == unsorted[order[2]]
        diff == best.darkness - second.darkness
        stats == [best |-> best.option, darkness |-> best.darkness, diff |-> diff]
    IN  IF best.darkness < FILL_THRESHOLD * Unit
        THEN [answer |-> "None", warning |-> "", stats |-> stats]
        ELSE IF second.darkness >= (FILL_THRESHOLD - 5) * Unit /\ diff < 8 * Unit
        THEN [answer |-> "None", warning |-> "double_mark", stats |-> stats]
        ELSE [answer |-> best.option, warning |-> "", stats |-> stats]

(***************************************************************************)
(* Inputs of the classifiers: every 5-tuple over the first NumLevels       *)
(* darkness levels of DarkLevels (hundredths of a percent).                *)
(***************************************************************************)
NumLevels == 8
DarkLevels ==
    <<0, 10000, 9000, 3500, 3800, 3204, 4000, 3050, 3296, 3996, 4400, 3199,
      4796>>
Levels == {DarkLevels[k] : k \in 1..(IF NumLevels < Len(DarkLevels)
                                     THEN NumLevels ELSE Len(DarkLevels))}

NoAnswer == [answer |-> "None", warning |-> "",
             stats |-> [best |-> "A", darkness |-> 0, diff |-> 0]]

ClsIdle ==
    /\ c_pc = "off"
    /\ c_dark = [i \in 1..NUM_OPTIONS |-> 0]
    /\ c_rq = "None"
    /\ c_da = NoAnswer
    /\ c_dg = ""

ClsInit ==
    /\ c_pc = "in"
    /\ c_dark \in [1..NUM_OPTIONS -> Levels]
    /\ c_rq = "None"
    /\ c_da = NoAnswer
    /\ c_dg = ""

\* The classifiers applied to the same 5 darkness values.
Classify ==
    /\ c_pc = "in"
    /\ c_pc' = "done"
    /\ c_rq' = read_question(
                  [i \in 1..NUM_OPTIONS |->
                      [label |-> Chr65(i - 1), darkness |-> c_dark[i]]])
    /\ c_da' = detect_answer(
                  [i \in 1..NUM_OPTIONS |->
                      [option |-> OPTIONS[i], darkness |-> c_dark[i]]])
    /\ c_dg' = diagnose_image(
                  [i \in 1..NUM_OPTIONS |->
                      [label |-> Chr65(i - 1), darkness |-> c_dark[i]]])
    /\ UNCHANGED <<c_dark, valVars, img, qrVars, omrVars, shVars, genVars,
                   layVars, calVars, bsVars, piVars, dbVars, rtVars>>

(***************************************************************************)
(* The input image.  w, h: size in pixels.  qr[m]: what pyzbar decodes on  *)
(* the variant of the image that attempt m prepares: nothing (miss), an    *)
(* exception (raise), or the payload text of the first QRCODE object.      *)
(***************************************************************************)
Miss == [kind |-> "miss", text |-> <<>>]
Raise == [kind |-> "raise", text |-> <<>>]
Txt(t) == [kind |-> "text", text |-> t]

Max(a, b) == IF a >= b THEN a ELSE b
Min(a, b) == IF a <= b THEN a ELSE b

\* A4 at 150 and 300 DPI, and a thumbnail
SIZE_150 == [w |-> 1240, h |-> 1754]
SIZE_300 == [w |-> 2480, h |-> 3508]
SIZE_THUMB == [w |-> 150, h |-> 212]

(***************************************************************************)
(* qr_reader_module.py                                                     *)
(***************************************************************************)
\* _decode_qr on the image variant of attempt m
_decode_qr(im, m) == im.qr[m]

\* read_qr_scaled: int(w * scale), int(h * scale); None below 100 pixels
read_qr_scaled(im, m, pct) ==
    LET new_w == (im.w * pct) \div 100
        new_h == (im.h * pct) \div 100
    IN  IF new_w < 100 \/ new_h < 100 THEN Miss ELSE _decode_qr(im, m)

\* the list `methods` of read_qr_with_fallback with 'full' and 'roi' swapped
methods_full_first ==
    <<"full", "roi", "enhanced", "binary", "scaled_50", "scaled_75">>

\* the list `methods` of read_qr_with_fallback, in order
methods == <<"roi", "full", "enhanced", "binary", "scaled_50", "scaled_75">>

\* method_func(): the attempt named m
method_func(im, m) ==
    IF m = "scaled_50" THEN read_qr_scaled(im, m, 50)
    ELSE IF m = "scaled_75" THEN read_qr_scaled(im, m, 75)
    ELSE _decode_qr(im, m)

\* `if result:` accepting only a text that validates
HitIfValid(o) ==
    o.kind = "text" /\ Len(o.text) > 0 /\ validate_sheet_code_qr(Some(o.text))

\* `result = method_func(); if result:` inside the try: an exception is
\* caught by `except Exception: continue`, None and '' are falsy
Hit(o) == o.kind = "text" /\ Len(o.text) > 0

QrNotFound ==
    [success |-> FALSE, sheet_code |-> NoneStr, method |-> "None", valid |-> FALSE]

QrIdle ==
    /\ q_pc = "off"
    /\ q_i = 1
    /\ q_tried = <<>>
    /\ q_res = QrNotFound

QrStart ==
    /\ q_pc = "loop"
    /\ q_i = 1
    /\ q_tried = <<>>
    /\ q_res = QrNotFound

\* one iteration of `for method_name, method_func in methods`
QrAttempt ==
    /\ q_pc = "loop"
    /\ q_i <= Len(methods)
    /\ LET m == methods[q_i]
           o == method_func(img, m)
       IN  /\ q_tried' = Append(q_tried, m)
           /\ IF Hit(o)
              THEN /\ q_res' = [success |-> TRUE,
                                sheet_code |-> Some(o.text),
                                method |-> m,
                                valid |-> validate_sheet_code_qr(Some(o.text))]
                   /\ q_pc' = "done"
                   /\ UNCHANGED q_i
              ELSE /\ q_i' = q_i + 1
                   /\ UNCHANGED <<q_res, q_pc>>
    /\ UNCHANGED <<img, valVars, clsVars, omrVars, shVars, genVars, layVars,
                   calVars, bsVars, piVars, dbVars, rtVars>>

\* the loop ran out of methods
QrNotFoundReturn ==
    /\ q_pc = "loop"
    /\ q_i > Len(methods)
    /\ q_res' = QrNotFound
    /\ q_pc' = "done"
    /\ UNCHANGED <<q_i, q_tried, img, valVars, clsVars, omrVars, shVars,
                   genVars, layVars, calVars, bsVars, piVars, dbVars, rtVars>>

\* the attempts of both QR readers: 'xroi' and 'full' are the two of
\* xtri_gabarito_reader.read_qr_code
QrAttempts == {"xroi", "roi", "full", "enhanced", "binary", "scaled_50", "scaled_75"}

QrOutcomes == {Miss, Raise, Txt(<<>>), Txt(CODE_A7B3C9), Txt(CODE_ABCD)}

\* An image with the given size and QR outcomes whose answer grid is the
\* nominal one.
QrImage(size, qr) ==
    [w |-> size.w, h |-> size.h, qr |-> qr, gm |-> "four", sq |-> "four",
     circ |-> "nominal", hdp |-> 1, ldp |-> 1,
     lines |-> [count |-> 0, angles |-> FALSE, median |-> 0]]

QrImages ==
    {QrImage(size, [m \in QrAttempts |-> IF m = "xroi" THEN Miss ELSE f[m]]) :
        size \in {SIZE_150, SIZE_THUMB},
        f \in [QrAttempts \ {"xroi"} -> QrOutcomes]}

(***************************************************************************)
(* Template geometry (app.py, 150 DPI)                                     *)
(***************************************************************************)
REF_WIDTH_FULL == 1240
REF_HEIGHT_FULL == 1753
MARKER_TL == [x |-> 55, y |-> 465]
MARKER_BR == [x |-> 1185, y |-> 1140]
REF_WIDTH == MARKER_BR.x - MARKER_TL.x
REF_HEIGHT == MARKER_BR.y - MARKER_TL.y
Y_POSITIONS ==
    <<58, 99, 140, 182, 223, 265, 307, 348, 389, 431, 473, 514, 556, 597, 638>>
COLUMNS_X == <<64, 244, 423, 603, 782, 962>>
OPTION_SPACING == 25
BUBBLE_RADIUS == 10

\* xtri_gabarito_reader.py template configuration
NUM_QUESTIONS == 90
QUESTIONS_PER_COLUMN == 15
NUM_COLUMNS == 6
\* reference size of `scale = max(w / 1240, h / 1754)`
XTRI_REF_W == 1240
XTRI_REF_H == 1754

(***************************************************************************)
(* What the OpenCV primitives see in an image.  Positions are given at     *)
(* 150 DPI and scaled to the size of the image.                            *)
(*   gm    the contours find_grid_markers keeps as candidates              *)
(*   sq    the squares find_corner_markers keeps after its filters         *)
(*   circ  the circles cv2.HoughCircles returns                            *)
(*   hdp   the darkness analyze_bubble (Hough reader) measures             *)
(*   ldp   the darkness analyze_bubble_with_search (legacy reader) measures*)
(***************************************************************************)
At(im, x, y) == [x |-> (x * im.w) \div XTRI_REF_W, y |-> (y * im.h) \div XTRI_REF_H]

PrintedTL(im) == At(im, MARKER_TL.x, MARKER_TL.y)
PrintedTR(im) == At(im, MARKER_BR.x, MARKER_TL.y)
PrintedBL(im) == At(im, MARKER_TL.x, MARKER_BR.y)
PrintedBR(im) == At(im, MARKER_BR.x, MARKER_BR.y)

\* candidates of find_grid_markers, in contour order
GridCandidates(im) ==
    CASE im.gm = "four" ->
            <<PrintedBR(im), PrintedBL(im), PrintedTR(im), PrintedTL(im)>>
      [] im.gm = "three" ->
            <<PrintedBL(im), PrintedTR(im), PrintedTL(im)>>
      [] im.gm = "five" ->
            <<PrintedBR(im), PrintedBL(im), At(im, 1200, 120), PrintedTR(im),
              PrintedTL(im)>>
      [] im.gm = "topheavy" ->
            <<PrintedBL(im), At(im, 1200, 120), PrintedTR(im), PrintedTL(im)>>
      [] OTHER -> <<>>

\* squares of find_corner_markers, in contour order
Square(c, area) == [center |-> c, area |-> area]
CornerSquares(im) ==
    CASE im.sq = "four" ->
            <<Square(PrintedBR(im), 961), Square(PrintedBL(im), 961),
              Square(PrintedTR(im), 961), Square(PrintedTL(im), 961)>>
      [] im.sq = "three" ->
            <<Square(PrintedBL(im), 961), Square(At(im, 1000, 150), 700),
              Square(PrintedTR(im), 961), Square(PrintedTL(im), 961)>>
      [] im.sq = "five" ->
            <<Square(PrintedBR(im), 961), Square(PrintedBL(im), 961),
              Square(PrintedTR(im), 961), Square(At(im, 60, 300), 500),
              Square(PrintedTL(im), 961)>>
      [] im.sq = "two" ->
            <<Square(PrintedBR(im), 961), Square(PrintedTL(im), 961)>>
      [] im.sq = "list" -> im.squares
      [] OTHER -> <<>>

\* the printed bubble of row `row` (0-based; rows from 15 on continue the
\* grid downwards) and position k (0..29) in its row, as a detected circle
RowY(row) ==
    IF row < Len(Y_POSITIONS) THEN MARKER_TL.y + Y_POSITIONS[row + 1]
    ELSE MARKER_TL.y + Y_POSITIONS[Len(Y_POSITIONS)]
             + 41 * (row + 1 - Len(Y_POSITIONS))
BubbleX(k) == MARKER_TL.x + COLUMNS_X[(k \div 5) + 1] + (k % 5) * OPTION_SPACING
Circle(im, x, y, row, k) ==
    [x |-> At(im, x, y).x, y |-> At(im, x, y).y + (IF k >= 0 THEN k % 2 ELSE 0),
     r |-> (BUBBLE_RADIUS * im.w) \div XTRI_REF_W,
     bubble |-> [row |-> row, k |-> k]]
BubbleCircle(im, row, k) == Circle(im, BubbleX(k), RowY(row), row, k)
Stray(im, x, y) == Circle(im, x, y, -1, -1)

\* the circles of nrows printed rows, last row and last bubble first, without
\* the bubbles of `missing`, after the circles of `strays`
CircleList(im, nrows, missing, strays) ==
    strays \o
    SelectSeq([n \in 1..(nrows * 30) |->
                  BubbleCircle(im, nrows - 1 - ((n - 1) \div 30), 29 - ((n - 1) % 30))],
              LAMBDA c : c.bubble \notin missing)

\* cv2.HoughCircles: None, or the list of circles
HoughCircles(im) ==
    CASE im.circ = "none" -> [none |-> TRUE, list |-> <<>>]
      [] im.circ = "nominal" ->
            [none |-> FALSE, list |-> CircleList(im, 15, {}, <<>>)]
      [] im.circ = "rows13" ->
            [none |-> FALSE, list |-> CircleList(im, 13, {}, <<>>)]
      [] im.circ = "rows14" ->
            [none |-> FALSE, list |-> CircleList(im, 14, {}, <<>>)]
      [] im.circ = "rows16" ->
            [none |-> FALSE, list |-> CircleList(im, 16, {}, <<>>)]
      [] im.circ = "lack1" ->
            [none |-> FALSE,
             list |-> CircleList(im, 15, {[row |-> 3, k |-> 7]}, <<>>)]
      [] im.circ = "lack1extra1" ->
            [none |-> FALSE,
             list |-> CircleList(im, 15, {[row |-> 3, k |-> 7]},
                                 <<Stray(im, 225, RowY(5))>>)]
      [] im.circ = "outside" ->
            [none |-> FALSE,
             list |-> CircleList(im, 15, {},
                                 <<Stray(im, 1100, 150), Stray(im, 20, 700),
                                   Stray(im, 600, 1200)>>)]
      [] im.circ = "below" ->
            [none |-> FALSE,
             list |-> CircleList(im, 15, {}, <<Stray(im, 600, 1150)>>)]
      [] im.circ = "probe" ->
            [none |-> FALSE,
             list |-> CircleList(im, 15, im.missing,
                                 <<Stray(im, im.probe.x, im.probe.y)>>)]
      [] OTHER -> [none |-> FALSE, list |-> <<>>]

\* darkness profiles of one question (options A..E), hundredths of a percent
Profiles ==
    <<  <<9000, 500, 300, 0, 200>>,
        <<0, 0, 0, 0, 0>>,
        <<300, 8800, 200, 9000, 0>>,
        <<100, 200, 3500, 0, 0>>,
        <<0, 0, 0, 0, 9500>>,
        <<4200, 3700, 0, 0, 0>>,
        <<0, 3396, 3100, 0, 0>>  >>
ProfileOf(p, q) == Profiles[((p * q) % Len(Profiles)) + 1]

\* analyze_bubble of the Hough reader at a detected circle
HoughDarkAt(im, bubble) ==
    IF bubble.row < 0 \/ bubble.row >= QUESTIONS_PER_COLUMN THEN 0
    ELSE ProfileOf(im.hdp, (bubble.k \div 5) * QUESTIONS_PER_COLUMN + bubble.row + 1)
             [(bubble.k % 5) + 1]

\* analyze_bubble_with_search of the legacy reader at the position of option
\* opt_idx of the question in column col_idx, row row_idx (all 0-based); the
\* position is in the rectified image when aligned, in the raw image when not
LegacyDarkAt(im, aligned, col_idx, row_idx, opt_idx) ==
    ProfileOf(IF aligned THEN im.ldp ELSE im.ldp + 1,
              col_idx * 15 + row_idx + 1)[opt_idx + 1]

(***************************************************************************)
(* Sorting.  list.sort(key=...) and sorted(...) are stable: the sorted     *)
(* list is, key by key in ascending order, the entries with that key in    *)
(* their original order.                                                   *)
(***************************************************************************)
SetMin(S) == CHOOSE a \in S : \A b \in S : a <= b
SetMax(S) == CHOOSE a \in S : \A b \in S : a >= b

RECURSIVE SortByYKeys(_, _)
SortByYKeys(s, keys) ==
    IF keys = {} THEN <<>>
    ELSE LET k == SetMin(keys)
         IN  SelectSeq(s, LAMBDA c : c.y = k) \o SortByYKeys(s, keys \ {k})
SortByY(s) == SortByYKeys(s, {s[i].y : i \in DOMAIN s})

RECURSIVE SortByXKeys(_, _)
SortByXKeys(s, keys) ==
    IF keys = {} THEN <<>>
    ELSE LET k == SetMin(keys)
         IN  SelectSeq(s, LAMBDA c : c.x = k) \o SortByXKeys(s, keys \ {k})
SortByX(s) == SortByXKeys(s, {s[i].x : i \in DOMAIN s})

RECURSIVE SortByQuestionKeys(_, _)
SortByQuestionKeys(s, keys) ==
    IF keys = {} THEN <<>>
    ELSE LET k == SetMin(keys)
         IN  SelectSeq(s, LAMBDA c : c.question = k)
                 \o SortByQuestionKeys(s, keys \ {k})
SortByQuestion(s) == SortByQuestionKeys(s, {s[i].question : i \in DOMAIN s})

RECURSIVE SetToSeq(_)
SetToSeq(S) ==
    IF S = {} THEN <<>> ELSE <<SetMin(S)>> \o SetToSeq(S \ {SetMin(S)})

Abs(a) == IF a < 0 THEN -a ELSE a

(***************************************************************************)
(* xtri_gabarito_reader.py: the detected-grid (Hough) reader               *)
(***************************************************************************)
\* int(k * scale) with scale = max(w / 1240, h / 1754)
XtriScaled(im, k) == Max((k * im.w) \div XTRI_REF_W, (k * im.h) \div XTRI_REF_H)

NoMarkers ==
    [found |-> FALSE, TL |-> [x |-> 0, y |-> 0], TR |-> [x |-> 0, y |-> 0],
     BL |-> [x |-> 0, y |-> 0], BR |-> [x |-> 0, y |-> 0]]

\* find_grid_markers from the list `candidates` on (the centres of the
\* contours that pass the area and aspect filter, in contour order)
find_grid_markers(im) ==
    LET candidates == GridCandidates(im)
        top == SortByX(SelectSeq(candidates, LAMBDA c : 2 * c.y < im.h))
        bot == SortByX(SelectSeq(candidates, LAMBDA c : 2 * c.y >= im.h))
    IN  IF Len(candidates) < 4 THEN NoMarkers
        ELSE IF Len(top) < 2 \/ Len(bot) < 2 THEN NoMarkers
        ELSE [found |-> TRUE, TL |-> top[1], TR |-> top[Len(top)],
              BL |-> bot[1], BR |-> bot[Len(bot)]]

\* the filter with the margin on the top side as well
InGrid_marginOnTop(c, markers, margin) ==
    /\ markers.TL.x - margin < c.x /\ c.x < markers.TR.x + margin
    /\ markers.TL.y - margin < c.y /\ c.y < markers.BL.y + margin

\* the filter of detect_bubbles: circles inside the grid
InGrid(c, markers, margin) ==
    /\ markers.TL.x - margin < c.x /\ c.x < markers.TR.x + margin
    /\ markers.TL.y < c.y /\ c.y < markers.BL.y + margin

\* the rows of detect_bubbles: the y-sorted circles cut wherever a circle is
\* not within row_threshold of the one before it, each row sorted by x
RowsOf(sorted, row_threshold) ==
    LET starts == {1} \cup {i \in 2..Len(sorted) :
                       ~(Abs(sorted[i].y - sorted[i - 1].y) < row_threshold)}
        first == SetToSeq(starts)
    IN  [j \in 1..Len(first) |->
            SortByX(SubSeq(sorted, first[j],
                           IF j < Len(first) THEN first[j + 1] - 1
                           ELSE Len(sorted)))]

\* the question entry numbered along the rows instead of down the columns
QuestionEntry_rowMajor(row, row_idx, col_idx) ==
    LET start == col_idx * 5
        col_circles == SubSeq(row, start + 1, Min(start + 5, Len(row)))
    IN  [question |-> row_idx * NUM_COLUMNS + col_idx + 1,
         options |-> [i \in 1..Len(col_circles) |->
                         [option |-> OPTIONS[i], x |-> col_circles[i].x,
                          y |-> col_circles[i].y, r |-> col_circles[i].r,
                          bubble |-> col_circles[i].bubble]]]

\* the question entry of row row_idx, column col_idx (both 0-based)
QuestionEntry(row, row_idx, col_idx) ==
    LET start == col_idx * 5
        col_circles == SubSeq(row, start + 1, Min(start + 5, Len(row)))
    IN  [question |-> col_idx * QUESTIONS_PER_COLUMN + row_idx + 1,
         options |-> [i \in 1..Len(col_circles) |->
                         [option |-> OPTIONS[i], x |-> col_circles[i].x,
                          y |-> col_circles[i].y, r |-> col_circles[i].r,
                          bubble |-> col_circles[i].bubble]]]

\* detect_bubbles: the circles kept by the filter, in the order of detection
grid_circles(im, markers) ==
    SelectSeq(HoughCircles(im).list,
              LAMBDA c : InGrid(c, markers, XtriScaled(im, 20)))

\* detect_bubbles: the rows of the kept circles
grid_rows(im, markers) ==
    RowsOf(SortByY(grid_circles(im, markers)), XtriScaled(im, 25))

\* detect_bubbles with the rows that do not hold 30 circles mapped too
detect_bubbles_anyRow(im, markers) ==
    LET circles == HoughCircles(im)
        rows == grid_rows(im, markers)
        appended == [n \in 1..(Len(rows) * NUM_COLUMNS) |->
                        LET j == ((n - 1) \div NUM_COLUMNS) + 1
                        IN  QuestionEntry(rows[j], j - 1, (n - 1) % NUM_COLUMNS)]
    IN  IF circles.none THEN <<>>
        ELSE IF Len(grid_circles(im, markers)) < 400 THEN <<>>
        ELSE IF Len(rows) # 15 THEN <<>>
        ELSE SortByQuestion(appended)

\* detect_bubbles: the list bubble_positions ([] when the grid is not found)
detect_bubbles(im, markers) ==
    LET circles == HoughCircles(im)
        rows == grid_rows(im, markers)
        full == SetToSeq({j \in 1..Len(rows) : Len(rows[j]) = 30})
        appended == [n \in 1..(Len(full) * NUM_COLUMNS) |->
                        LET j == full[((n - 1) \div NUM_COLUMNS) + 1]
                        IN  QuestionEntry(rows[j], j - 1, (n - 1) % NUM_COLUMNS)]
    IN  IF circles.none THEN <<>>
        ELSE IF Len(grid_circles(im, markers)) < 400 THEN <<>>
        ELSE IF Len(rows) # 15 THEN <<>>
        ELSE SortByQuestion(appended)

\* str(n) of an integer 0..99
DigitChar(n) == <<"0", "1", "2", "3", "4", "5", "6", "7", "8", "9">>[n + 1]
Str(n) == IF n < 10 THEN <<DigitChar(n)>>
          ELSE <<DigitChar(n \div 10), DigitChar(n % 10)>>

\* obj.data.decode('utf-8').strip(): leading and trailing whitespace removed
IsSpace(c) == c \in {" ", "\n"}
RECURSIVE Strip(_)
Strip(t) ==
    IF t = <<>> THEN t
    ELSE IF IsSpace(t[1]) THEN Strip(Tail(t))
    ELSE IF IsSpace(t[Len(t)]) THEN Strip(SubSeq(t, 1, Len(t) - 1))
    ELSE t

\* xtri_gabarito_reader.read_qr_code: the ROI of the top right corner, then
\* the full image; [raised, code]
read_qr_code_xtri(im) ==
    LET roi == im.qr["xroi"]
        full == im.qr["full"]
    IN  IF roi.kind = "raise" THEN [raised |-> TRUE, code |-> NoneStr]
        ELSE IF roi.kind = "text"
             THEN [raised |-> FALSE, code |-> Some(Strip(roi.text))]
        ELSE IF full.kind = "raise" THEN [raised |-> TRUE, code |-> NoneStr]
        ELSE IF full.kind = "text"
             THEN [raised |-> FALSE, code |-> Some(Strip(full.text))]
        ELSE [raised |-> FALSE, code |-> NoneStr]

\* the darkness analyze_bubble measures for each option of a question entry
Measured(im, q_data) ==
    [i \in DOMAIN q_data.options |->
        [option |-> q_data.options[i].option,
         darkness |-> HoughDarkAt(im, q_data.options[i].bubble)]]

EmptyStats == [answered |-> 0, blank |-> 0, double_marked |-> 0]

\* the dict `result` with which process_answer_sheet starts and which it
\* returns when the markers or the grid are not found
HoughFailure(code, error) ==
    [success |-> FALSE, raised |-> FALSE, sheet_code |-> code, answers |-> <<>>,
     stats |-> EmptyStats, error |-> error]

\* an exception leaving process_answer_sheet
HoughRaised ==
    [success |-> FALSE, raised |-> TRUE, sheet_code |-> NoneStr, answers |-> <<>>,
     stats |-> EmptyStats, error |-> "exception"]

\* the loop `for q_data in bubble_positions` of process_answer_sheet: the
\* answers dict (keys str(q_num); a later entry of the same question
\* overwrites an earlier one) and the three counters
AnalyzeAll(im, code, bubble_positions) ==
    LET analysed == {[n |-> n,
                      key |-> Str(bubble_positions[n].question),
                      det |-> detect_answer(Measured(im, bubble_positions[n]))] :
                        n \in DOMAIN bubble_positions}
        keys == {a.key : a \in analysed}
        last(k) == LET n == SetMax({a.n : a \in {e \in analysed : e.key = k}})
                   IN  CHOOSE a \in analysed : a.n = n
    IN  [success |-> TRUE, raised |-> FALSE, sheet_code |-> code,
         answers |-> [k \in keys |-> last(k).det.answer],
         stats |-> [answered |-> Cardinality({a \in analysed :
                                     a.det.answer # "None"}),
                    double_marked |-> Cardinality({a \in analysed :
                                     /\ a.det.answer = "None"
                                     /\ a.det.warning = "double_mark"}),
                    blank |-> Cardinality({a \in analysed :
                                     /\ a.det.answer = "None"
                                     /\ a.det.warning # "double_mark"})],
         error |-> ""]

\* process_answer_sheet that analyses whatever questions were mapped
process_answer_sheet_partial(im) ==
    LET qr == read_qr_code_xtri(im)
        markers == find_grid_markers(im)
    IN  IF qr.raised THEN HoughRaised
        ELSE IF ~markers.found THEN HoughFailure(qr.code, "markers")
        ELSE AnalyzeAll(im, qr.code, detect_bubbles(im, markers))

\* xtri_gabarito_reader.process_answer_sheet
process_answer_sheet(im) ==
    LET qr == read_qr_code_xtri(im)
        markers == find_grid_markers(im)
        bubble_positions == detect_bubbles(im, markers)
    IN  IF qr.raised THEN HoughRaised
        ELSE IF ~markers.found THEN HoughFailure(qr.code, "markers")
        ELSE IF Len(bubble_positions) # 90 THEN HoughFailure(qr.code, "mapping")
        ELSE AnalyzeAll(im, qr.code, bubble_positions)

(***************************************************************************)
(* app.py: the fixed-grid (legacy) reader                                  *)
(***************************************************************************)
\* squares.sort(key=area, reverse=True): position of entry i of the list
AreaPos(sq, i) ==
    1 + Cardinality({j \in DOMAIN sq : \/ sq[j].area > sq[i].area
                                       \/ (sq[j].area = sq[i].area /\ j < i)})
SortByAreaDesc(sq) ==
    [k \in 1..Len(sq) |-> sq[CHOOSE i \in DOMAIN sq : AreaPos(sq, i) = k]]

NoSquare == [set |-> FALSE, center |-> [x |-> 0, y |-> 0], area |-> 0]
Taken(sq) == [set |-> TRUE, center |-> sq.center, area |-> sq.area]

\* AssignCorners with every candidate of a zone replacing the one held
\* (the area comparison left out)
RECURSIVE AssignCorners_lastWins(_, _, _, _)
AssignCorners_lastWins(im, candidates, i, c) ==
    IF i > Len(candidates) THEN c
    ELSE LET sq == candidates[i]
             is_left == 100 * sq.center.x < 8 * im.w
             is_right == 100 * sq.center.x > 92 * im.w
             is_top == 100 * sq.center.y < 35 * im.h
             is_bottom == 100 * sq.center.y > 60 * im.h
         IN  AssignCorners_lastWins(im, candidates, i + 1,
                 IF is_top /\ is_left
                 THEN [c EXCEPT !.top_left = Taken(sq)]
                 ELSE IF is_top /\ is_right
                 THEN [c EXCEPT !.top_right = Taken(sq)]
                 ELSE IF is_bottom /\ is_left
                 THEN [c EXCEPT !.bottom_left = Taken(sq)]
                 ELSE IF is_bottom /\ is_right
                 THEN [c EXCEPT !.bottom_right = Taken(sq)]
                 ELSE c)

\* the loop `for sq in candidates` of find_corner_markers from candidate i on;
\* c holds top_left, top_right, bottom_left, bottom_right
RECURSIVE AssignCorners(_, _, _, _)
AssignCorners(im, candidates, i, c) ==
    IF i > Len(candidates) THEN c
    ELSE LET sq == candidates[i]
             is_left == 100 * sq.center.x < 8 * im.w
             is_right == 100 * sq.center.x > 92 * im.w
             is_top == 100 * sq.center.y < 35 * im.h
             is_bottom == 100 * sq.center.y > 60 * im.h
             larger(cur) == ~cur.set \/ sq.area > cur.area
         IN  AssignCorners(im, candidates, i + 1,
                 IF is_top /\ is_left /\ larger(c.top_left)
                 THEN [c EXCEPT !.top_left = Taken(sq)]
                 ELSE IF is_top /\ is_right /\ larger(c.top_right)
                 THEN [c EXCEPT !.top_right = Taken(sq)]
                 ELSE IF is_bottom /\ is_left /\ larger(c.bottom_left)
                 THEN [c EXCEPT !.bottom_left = Taken(sq)]
                 ELSE IF is_bottom /\ is_right /\ larger(c.bottom_right)
                 THEN [c EXCEPT !.bottom_right = Taken(sq)]
                 ELSE c)

\* find_corner_markers from the list `squares` on: [found, the four centres]
find_corner_markers(im) ==
    LET squares == CornerSquares(im)
        sorted == SortByAreaDesc(squares)
        candidates == SubSeq(sorted, 1, Min(12, Len(sorted)))
        c == AssignCorners(im, candidates, 1,
                 [top_left |-> NoSquare, top_right |-> NoSquare,
                  bottom_left |-> NoSquare, bottom_right |-> NoSquare])
    IN  IF Len(squares) < 4 THEN NoMarkers
        ELSE IF ~(c.top_left.set /\ c.top_right.set
                    /\ c.bottom_left.set /\ c.bottom_right.set) THEN NoMarkers
        ELSE [found |-> TRUE, TL |-> c.top_left.center, TR |-> c.top_right.center,
              BL |-> c.bottom_left.center, BR |-> c.bottom_right.center]

\* what cv2.HoughLinesP finds for the fallback of deskew_image: the number
\* of lines, whether any angle is within 15 degrees of an axis, and the
\* median of those angles in hundredths of a degree
Lines(count, angles, median) ==
    [count |-> count, angles |-> angles, median |-> median]
NoLines == Lines(0, FALSE, 0)

\* cos and sin of the angles the model rotates by (hundredths of a degree),
\* in ten-thousandths
Trig(angle) ==
    CASE angle = 30 -> [cos |-> 10000, sin |-> 52]
      [] angle = 200 -> [cos |-> 9994, sin |-> 349]
      [] angle = 1000 -> [cos |-> 9848, sin |-> 1736]
      [] OTHER -> [cos |-> 10000, sin |-> 0]

\* the line-based fallback of deskew_image: the size of the image it returns
deskew_by_lines(im) ==
    IF im.lines.count < 5 \/ ~im.lines.angles \/ Abs(im.lines.median) < 30
    THEN [w |-> im.w, h |-> im.h]
    ELSE LET median_angle == Min(Max(im.lines.median, -1000), 1000)
             t == Trig(Abs(median_angle))
         IN  [w |-> (im.h * t.sin + im.w * t.cos) \div 10000,
              h |-> (im.h * t.cos + im.w * t.sin) \div 10000]

\* deskew_image with the marker-aligned image left at the size of the input
deskew_image_sizeKept(im) ==
    IF find_corner_markers(im).found
    THEN [aligned |-> TRUE, w |-> im.w, h |-> im.h]
    ELSE [aligned |-> FALSE, w |-> deskew_by_lines(im).w,
          h |-> deskew_by_lines(im).h]

\* deskew_image (align_to_markers, else the line-based fallback): whether the
\* image was aligned by the markers, and the size of the returned image
deskew_image(im) ==
    IF find_corner_markers(im).found
    THEN [aligned |-> TRUE, w |-> REF_WIDTH, h |-> REF_HEIGHT]
    ELSE [aligned |-> FALSE, w |-> deskew_by_lines(im).w,
          h |-> deskew_by_lines(im).h]

\* the list `options` that read_question builds for one question
LegacyOptions(im, aligned, col_idx, row_idx) ==
    [i \in 1..NUM_OPTIONS |->
        [label |-> Chr65(i - 1),
         darkness |-> LegacyDarkAt(im, aligned, col_idx, row_idx, i - 1)]]

\* `for col_idx ...: for row_idx ...: answers.append(read_question(...))`
\* from column col_idx on
RECURSIVE ReadColumns(_, _, _)
ReadColumns(im, aligned, col_idx) ==
    IF col_idx >= Len(COLUMNS_X) THEN <<>>
    ELSE [r \in 1..Len(Y_POSITIONS) |->
             read_question(LegacyOptions(im, aligned, col_idx, r - 1))]
         \o ReadColumns(im, aligned, col_idx + 1)

\* sum(1 for a in answers if ...): the number of entries with a value in S
Count(answers, S) == Cardinality({n \in DOMAIN answers : answers[n] \in S})
\* the values of the entries of answers
Values(answers) == {answers[n] : n \in DOMAIN answers}

\* process_omr_legacy whose `answered` also counts the double marks
process_omr_legacy_countX(im, elapsed) ==
    LET cal == deskew_image(im)
        answers == ReadColumns(im, cal.aligned, 0)
    IN  [answers |-> answers,
         answered |-> Count(answers, Values(answers) \ {"None"}),
         blank |-> Count(answers, {"None"}),
         double_marked |-> Count(answers, {"X"}),
         elapsed_ms |-> elapsed,
         method |-> "legacy"]

\* process_omr_legacy; elapsed is what the clock gives for
\* round((time.time() - start_time) * 1000, 2)
process_omr_legacy(im, elapsed) ==
    LET cal == deskew_image(im)
        answers == ReadColumns(im, cal.aligned, 0)
    IN  [answers |-> answers,
         answered |-> Count(answers, Values(answers) \ {"None", "X"}),
         blank |-> Count(answers, {"None"}),
         double_marked |-> Count(answers, {"X"}),
         elapsed_ms |-> elapsed,
         method |-> "legacy"]

\* the conversion of process_omr: {'1': 'A', ...} -> ['A', ...]
AnswersList(answers) ==
    [i \in 1..90 |-> IF Str(i) \in DOMAIN answers THEN answers[Str(i)] ELSE "None"]

\* the dict process_omr returns on the Hough path
HoughReturn(result, elapsed) ==
    [answers |-> AnswersList(result.answers),
     answered |-> result.stats.answered,
     blank |-> result.stats.blank,
     double_marked |-> result.stats.double_marked,
     elapsed_ms |-> elapsed,
     method |-> "hough"]

(***************************************************************************)
(* app.py: process_omr                                                     *)
(***************************************************************************)
MaxPattern == 1
MaxElapsed == 1

Invocations == {1, 2}

NoQr == [m \in QrAttempts |-> Miss]
QrVariants ==
    {NoQr,
     [NoQr EXCEPT !["xroi"] = Txt(CODE_A7B3C9 \o <<"\n">>)],
     [NoQr EXCEPT !["full"] = Txt(CODE_ABCD)],
     [NoQr EXCEPT !["xroi"] = Raise],
     [NoQr EXCEPT !["full"] = Raise],
     [m \in QrAttempts |-> Txt(CODE_U6M9R7)]}

Image(size, qr, gm, circ, sq, p) ==
    [w |-> size.w, h |-> size.h, qr |-> qr, gm |-> gm, sq |-> sq,
     circ |-> circ, hdp |-> p, ldp |-> p + 1, lines |-> NoLines]

CircCases ==
    {"none", "nominal", "rows13", "rows14", "rows16", "lack1", "lack1extra1",
     "outside", "below", "empty"}
GridCases ==
    {<<"four", c>> : c \in CircCases}
        \cup {<<g, "nominal">> : g \in {"three", "five", "topheavy", "none"}}

\* the images given to process_omr
OmrImages ==
    {Image(size, NoQr, g[1], g[2], "four", p) :
        size \in {SIZE_150, SIZE_300}, g \in GridCases, p \in 0..MaxPattern}
    \cup {Image(SIZE_150, NoQr, gm, circ, sq, p) :
            gm \in {"four", "none"}, circ \in {"nominal", "rows14"},
            sq \in {"three", "five", "two", "none"}, p \in 0..MaxPattern}
    \cup {Image(SIZE_150, qr, gm, "nominal", sq, 1) :
            qr \in QrVariants, gm \in {"four", "none"}, sq \in {"four", "none"}}

\* process_answer_sheet tabulated over the images
HoughTable == {<<im, process_answer_sheet(im)>> : im \in OmrImages}
hough_process_omr(im) == (CHOOSE e \in HoughTable : e[1] = im)[2]

\* process_omr_legacy tabulated over the images and the clock
LegacyTable ==
    {<<im, process_omr_legacy(im, 0)>> : im \in OmrImages}
LegacyReturn(im, elapsed) ==
    [(CHOOSE e \in LegacyTable : e[1] = im)[2] EXCEPT !.elapsed_ms = elapsed]

NoHough == HoughFailure(NoneStr, "")
NoResult ==
    [answers |-> <<>>, answered |-> 0, blank |-> 0, double_marked |-> 0,
     elapsed_ms |-> 0, method |-> ""]

OmrIdle ==
    /\ use_hough = TRUE
    /\ p_pc = [i \in Invocations |-> "off"]
    /\ p_calls = [i \in Invocations |-> <<>>]
    /\ p_hough = [i \in Invocations |-> NoHough]
    /\ p_res = [i \in Invocations |-> NoResult]

OmrInit ==
    /\ use_hough \in BOOLEAN
    /\ p_pc = [i \in Invocations |-> "start"]
    /\ p_calls = [i \in Invocations |-> <<>>]
    /\ p_hough = [i \in Invocations |-> NoHough]
    /\ p_res = [i \in Invocations |-> NoResult]

\* process_omr without the `return` of the Hough result: the legacy reader
\* runs after a success too
OmrTryHough_noReturn(i) ==
    /\ p_pc[i] = "start"
    /\ use_hough
    /\ p_calls' = [p_calls EXCEPT ![i] = Append(@, "hough")]
    /\ p_hough' = [p_hough EXCEPT ![i] = hough_process_omr(img)]
    /\ p_pc' = [p_pc EXCEPT ![i] = "legacy"]
    /\ UNCHANGED <<p_res, img, use_hough, valVars, clsVars, qrVars, shVars,
                   genVars, layVars, calVars, bsVars, piVars, dbVars, rtVars>>

\* process_omr returning what the Hough reader gave whether or not it
\* succeeded
OmrTryHough_noFallback(i) ==
    /\ p_pc[i] = "start"
    /\ use_hough
    /\ LET result == hough_process_omr(img)
       IN  /\ p_calls' = [p_calls EXCEPT ![i] = Append(@, "hough")]
           /\ p_hough' = [p_hough EXCEPT ![i] = result]
           /\ \E elapsed \in 0..MaxElapsed :
                 p_res' = [p_res EXCEPT ![i] = HoughReturn(result, elapsed)]
           /\ p_pc' = [p_pc EXCEPT ![i] = "done"]
    /\ UNCHANGED <<img, use_hough, valVars, clsVars, qrVars, shVars, genVars,
                   layVars, calVars, bsVars, piVars, dbVars, rtVars>>

\* `if USE_HOUGH_OMR: try: result = hough_process_omr(img)` and what follows
\* it: the return of the Hough answers on success, the warning and the fall
\* through to the legacy reader on failure or exception
OmrTryHough(i) ==
    /\ p_pc[i] = "start"
    /\ use_hough
    /\ LET result == hough_process_omr(img)
       IN  /\ p_calls' = [p_calls EXCEPT ![i] = Append(@, "hough")]
           /\ p_hough' = [p_hough EXCEPT ![i] = result]
           /\ IF ~result.raised /\ result.success
              THEN \E elapsed \in 0..MaxElapsed :
                      /\ p_res' = [p_res EXCEPT ![i] = HoughReturn(result, elapsed)]
                      /\ p_pc' = [p_pc EXCEPT ![i] = "done"]
              ELSE /\ p_pc' = [p_pc EXCEPT ![i] = "legacy"]
                   /\ UNCHANGED p_res
    /\ UNCHANGED <<img, use_hough, valVars, clsVars, qrVars, shVars, genVars,
                   layVars, calVars, bsVars, piVars, dbVars, rtVars>>

\* USE_HOUGH_OMR is False: straight to the legacy reader
OmrSkipHough(i) ==
    /\ p_pc[i] = "start"
    /\ ~use_hough
    /\ p_pc' = [p_pc EXCEPT ![i] = "legacy"]
    /\ UNCHANGED <<img, use_hough, p_calls, p_hough, p_res>>
    /\ UNCHANGED <<valVars, clsVars, qrVars, shVars, genVars, layVars,
                   calVars, bsVars, piVars, dbVars, rtVars>>

\* process_omr_legacy appending to a list of answers that outlives the call
OmrLegacy_sharedAnswers(i) ==
    /\ p_pc[i] = "legacy"
    /\ \E elapsed \in 0..MaxElapsed :
          LET own == LegacyReturn(img, elapsed)
              other == p_res[CHOOSE j \in Invocations : j # i]
          IN  p_res' = [p_res EXCEPT
                           ![i] = [own EXCEPT !.answers = other.answers \o @]]
    /\ p_calls' = [p_calls EXCEPT ![i] = Append(@, "legacy")]
    /\ p_pc' = [p_pc EXCEPT ![i] = "done"]
    /\ UNCHANGED <<img, use_hough, p_hough, valVars, clsVars, qrVars, shVars,
                   genVars, layVars, calVars, bsVars, piVars, dbVars, rtVars>>

\* `return process_omr_legacy(img, start_time)`
OmrLegacy(i) ==
    /\ p_pc[i] = "legacy"
    /\ \E elapsed \in 0..MaxElapsed :
          p_res' = [p_res EXCEPT ![i] = LegacyReturn(img, elapsed)]
    /\ p_calls' = [p_calls EXCEPT ![i] = Append(@, "legacy")]
    /\ p_pc' = [p_pc EXCEPT ![i] = "done"]
    /\ UNCHANGED <<img, use_hough, p_hough, valVars, clsVars, qrVars, shVars,
                   genVars, layVars, calVars, bsVars, piVars, dbVars, rtVars>>

OmrNext ==
    \/ \E i \in Invocations : OmrTryHough(i)
    \/ \E i \in Invocations : OmrSkipHough(i)
    \/ \E i \in Invocations : OmrLegacy(i)

(***************************************************************************)
(* app.py: read_qr_code, process_sheet, batch_process                      *)
(***************************************************************************)
MaxBatch == 2

\* app.read_qr_code: pyzbar on the gray image, on the CLAHE image and on
\* the adaptive binarisation (the preparations of qr_reader_module's
\* 'full', 'enhanced' and 'binary'); an exception of pyzbar.decode is not
\* caught here
RECURSIVE read_qr_code_app(_, _)
read_qr_code_app(im, attempts) ==
    IF attempts = <<>> THEN [raised |-> FALSE, code |-> NoneStr]
    ELSE LET o == im.qr[Head(attempts)]
         IN  IF o.kind = "raise" THEN [raised |-> TRUE, code |-> NoneStr]
             ELSE IF o.kind = "text" THEN [raised |-> FALSE, code |-> Some(o.text)]
             ELSE read_qr_code_app(im, Tail(attempts))

NoImage == QrImage(SIZE_150, [m \in QrAttempts |-> Miss])

\* an uploaded file: empty (0 bytes), or the image it decodes to
EmptyFile == [empty |-> TRUE, im |-> NoImage]
File(im) == [empty |-> FALSE, im |-> im]

SheetFiles ==
    {EmptyFile}
    \cup {File(Image(SIZE_150, qr, "four", "nominal", "four", 1)) :
            qr \in {NoQr, [NoQr EXCEPT !["full"] = Txt(CODE_ABCD)],
                    [NoQr EXCEPT !["full"] = Raise],
                    [m \in QrAttempts |-> Txt(CODE_U6M9R7)]}}
    \cup {File(Image(SIZE_150, qr, "none", "nominal", "none", 1)) :
            qr \in {NoQr, [m \in QrAttempts |-> Txt(CODE_U6M9R7)]}}

RECURSIVE FileLists(_)
FileLists(n) ==
    IF n = 0 THEN {<<>>}
    ELSE LET shorter == FileLists(n - 1)
         IN  shorter \cup {Append(l, f) : l \in {k \in shorter : Len(k) = n - 1},
                                           f \in SheetFiles}

NoResp == [status |-> "none"]

\* the error body of process_sheet / the error entry of batch_process
SheetError(code) == [status |-> "erro", code |-> code]
BatchError(idx, code) == [index |-> idx, status |-> "erro", code |-> code]

\* the dict `stats` both handlers build from the result of process_omr
StatsOf(result) ==
    [answered |-> result.answered, blank |-> result.blank,
     double_marked |-> result.double_marked]

ShIdle ==
    /\ use_qr_module = TRUE
    /\ s_kind = "off"
    /\ s_pc = "off"
    /\ s_files = <<>>
    /\ s_idx = 0
    /\ s_code = NoneStr
    /\ s_results = <<>>
    /\ s_success = 0
    /\ s_failed = 0
    /\ s_saved = <<>>
    /\ s_resp = NoResp

\* a request: process_sheet reads the one file of field 'image',
\* batch_process the files of field 'images'
ShInit ==
    /\ use_qr_module \in BOOLEAN
    /\ s_kind \in {"process_sheet", "batch_process"}
    /\ s_pc = "open"
    /\ s_files \in FileLists(IF s_kind = "process_sheet" THEN 1 ELSE MaxBatch)
    /\ s_idx = 0
    /\ s_code = NoneStr
    /\ s_results = <<>>
    /\ s_success = 0
    /\ s_failed = 0
    /\ s_saved = <<>>
    /\ s_resp = NoResp

\* SheetFail with batch_process giving up at the first file that fails
\* (an error return in place of the error entry and `continue`)
SheetFail_abort(code) ==
    /\ s_resp' = SheetError(code)
    /\ s_pc' = "done"
    /\ UNCHANGED <<s_results, s_failed, s_idx>>

\* an error return of process_sheet; in batch_process the error entry of the
\* current file, failed_count += 1 and `continue`
SheetFail(code) ==
    IF s_kind = "process_sheet"
    THEN /\ s_resp' = SheetError(code)
         /\ s_pc' = "done"
         /\ UNCHANGED <<s_results, s_failed, s_idx>>
    ELSE /\ s_results' = Append(s_results, BatchError(s_idx, code))
         /\ s_failed' = s_failed + 1
         /\ s_idx' = s_idx + 1
         /\ s_pc' = "open"
         /\ UNCHANGED s_resp

\* the request has no file field
SheetNoFiles ==
    /\ s_pc = "open"
    /\ Len(s_files) = 0
    /\ s_resp' = SheetError(IF s_kind = "process_sheet" THEN "NO_IMAGE"
                            ELSE "NO_IMAGES")
    /\ s_pc' = "done"
    /\ UNCHANGED <<use_qr_module, s_kind, s_files, s_idx, s_code, s_results,
                   s_success, s_failed, s_saved>>
    /\ UNCHANGED <<img, valVars, clsVars, qrVars, omrVars, genVars, layVars,
                   calVars, bsVars, piVars, dbVars, rtVars>>

\* img_file.read(), the EMPTY_FILE check, Image.open and the conversion to a
\* BGR array; with USE_QR_MODULE the QR reader with fallback starts
SheetOpen ==
    /\ s_pc = "open"
    /\ s_idx < Len(s_files)
    /\ LET f == s_files[s_idx + 1]
       IN  IF f.empty
           THEN /\ SheetFail("EMPTY_FILE")
                /\ UNCHANGED <<img, qrVars>>
           ELSE /\ img' = f.im
                /\ s_pc' = "qr"
                /\ q_pc' = IF use_qr_module THEN "loop" ELSE "off"
                /\ q_i' = 1
                /\ q_tried' = <<>>
                /\ q_res' = QrNotFound
                /\ UNCHANGED <<s_results, s_failed, s_idx, s_resp>>
    /\ UNCHANGED <<use_qr_module, s_kind, s_files, s_code, s_success, s_saved>>
    /\ UNCHANGED <<valVars, clsVars, omrVars, genVars, layVars, calVars,
                   bsVars, piVars, dbVars, rtVars>>

\* `if not sheet_code` (QR_NOT_FOUND), in process_sheet `if not
\* validator(sheet_code)` (INVALID_QR), else on to process_omr
SheetBranch(sheet_code) ==
    /\ s_code' = sheet_code
    /\ IF ~Truthy(sheet_code)
       THEN SheetFail("QR_NOT_FOUND") /\ UNCHANGED omrVars
       ELSE IF /\ s_kind = "process_sheet"
               /\ ~(IF use_qr_module THEN validate_sheet_code_qr(sheet_code)
                    ELSE validate_sheet_code_app(sheet_code))
       THEN SheetFail("INVALID_QR") /\ UNCHANGED omrVars
       ELSE /\ s_pc' = "omr"
            /\ p_pc' = [p_pc EXCEPT ![1] = "start"]
            /\ p_calls' = [p_calls EXCEPT ![1] = <<>>]
            /\ p_hough' = [p_hough EXCEPT ![1] = NoHough]
            /\ p_res' = [p_res EXCEPT ![1] = NoResult]
            /\ UNCHANGED <<use_hough, s_results, s_failed, s_idx, s_resp>>

\* USE_QR_MODULE: `sheet_code = qr_result['sheet_code'] if
\* qr_result['success'] else None` once read_qr_with_fallback has returned
SheetQrModule ==
    /\ s_pc = "qr"
    /\ use_qr_module
    /\ q_pc = "done"
    /\ SheetBranch(IF q_res.success THEN q_res.sheet_code ELSE NoneStr)
    /\ UNCHANGED <<use_qr_module, s_kind, s_files, s_success, s_saved>>
    /\ UNCHANGED <<img, valVars, clsVars, qrVars, genVars, layVars, calVars,
                   bsVars, piVars, dbVars, rtVars>>

\* not USE_QR_MODULE: `sheet_code = read_qr_code(img_array)`; an exception
\* reaches the handler's `except Exception` (PROCESSING_ERROR)
SheetQrInternal ==
    /\ s_pc = "qr"
    /\ ~use_qr_module
    /\ LET r == read_qr_code_app(img, <<"full", "enhanced", "binary">>)
       IN  IF r.raised
           THEN SheetFail("PROCESSING_ERROR") /\ UNCHANGED <<s_code, omrVars>>
           ELSE SheetBranch(r.code)
    /\ UNCHANGED <<use_qr_module, s_kind, s_files, s_success, s_saved>>
    /\ UNCHANGED <<img, valVars, clsVars, qrVars, genVars, layVars, calVars,
                   bsVars, piVars, dbVars, rtVars>>

\* after process_omr returned: lookup_student_by_sheet_code (student found
\* or not), save_omr_result (saved or not) and the success body / entry
SheetFinish ==
    /\ s_pc = "omr"
    /\ p_pc[1] = "done"
    /\ LET result == p_res[1]
           stats == StatsOf(result)
       IN  /\ s_saved' = Append(s_saved, [sheet_code |-> s_code,
                                          answers |-> result.answers,
                                          stats |-> stats])
           /\ \E student, saved \in BOOLEAN :
                 IF s_kind = "process_sheet"
                 THEN /\ s_resp' = [status |-> "sucesso", sheet_code |-> s_code,
                                    student |-> student,
                                    answers |-> result.answers,
                                    stats |-> stats, saved |-> saved]
                      /\ s_pc' = "done"
                      /\ UNCHANGED <<s_results, s_success, s_idx>>
                 ELSE /\ s_results' =
                            Append(s_results,
                                   [index |-> s_idx, status |-> "sucesso",
                                    sheet_code |-> s_code, student |-> student,
                                    answered |-> result.answered,
                                    blank |-> result.blank,
                                    double_marked |-> result.double_marked,
                                    saved |-> saved])
                      /\ s_success' = s_success + 1
                      /\ s_idx' = s_idx + 1
                      /\ s_pc' = "open"
                      /\ UNCHANGED s_resp
    /\ UNCHANGED <<use_qr_module, s_kind, s_files, s_code, s_failed>>
    /\ UNCHANGED <<img, valVars, clsVars, qrVars, omrVars, genVars, layVars,
                   calVars, bsVars, piVars, dbVars, rtVars>>

\* the loop of batch_process is over: the summary body
BatchReturn ==
    /\ s_kind = "batch_process"
    /\ s_pc = "open"
    /\ Len(s_files) > 0
    /\ s_idx = Len(s_files)
    /\ s_resp' = [status |-> "sucesso", processed |-> Len(s_files),
                  success |-> s_success, failed |-> s_failed,
                  results |-> s_results]
    /\ s_pc' = "done"
    /\ UNCHANGED <<use_qr_module, s_kind, s_files, s_idx, s_code, s_results,
                   s_success, s_failed, s_saved>>
    /\ UNCHANGED <<img, valVars, clsVars, qrVars, omrVars, genVars, layVars,
                   calVars, bsVars, piVars, dbVars, rtVars>>

SheetNext ==
    \/ SheetNoFiles
    \/ SheetOpen
    \/ QrAttempt
    \/ QrNotFoundReturn
    \/ SheetQrModule
    \/ SheetQrInternal
    \/ \E i \in Invocations : OmrTryHough(i)
    \/ \E i \in Invocations : OmrSkipHough(i)
    \/ \E i \in Invocations : OmrLegacy(i)
    \/ SheetFinish
    \/ BatchReturn

(***************************************************************************)
(* app.py: generate_sheet_code, create_students_batch                      *)
(***************************************************************************)
MaxChars == 2
MaxStudents == 2

\* chars = 'ABCDEFGHJKMNPQRSTUVWXYZ23456789'
SHEET_CODE_CHARS ==
    <<"A", "B", "C", "D", "E", "F", "G", "H", "J", "K", "M", "N", "P", "Q",
      "R", "S", "T", "U", "V", "W", "X", "Y", "Z", "2", "3", "4", "5", "6",
      "7", "8", "9">>

\* what random.choice(chars) may return: any character of chars (here the
\* first MaxChars of them)
RandomChoice ==
    {SHEET_CODE_CHARS[k] : k \in 1..Min(MaxChars, Len(SHEET_CODE_CHARS))}

\* generate_sheet_code: the values it may return, 'XTRI-' and 6 random
\* characters
generate_sheet_code ==
    {XTRI_PREFIX \o code : code \in [1..CODE_LEN -> RandomChoice]}

GenIdle ==
    /\ g_pc = "off"
    /\ g_client = FALSE
    /\ g_students = 0
    /\ g_table = <<>>
    /\ g_records = <<>>
    /\ g_ret = <<>>

\* a call create_students_batch(batch_id, students): whether Supabase is
\* configured, the number of students, and the sheet codes of the rows the
\* table answer_sheet_students already holds
GenInit ==
    /\ g_pc = "start"
    /\ g_client \in BOOLEAN
    /\ g_students \in 0..MaxStudents
    /\ g_table \in {<<>>, <<XTRI_PREFIX \o [k \in 1..CODE_LEN |->
                                              SHEET_CODE_CHARS[1]]>>}
    /\ g_records = <<>>
    /\ g_ret = <<>>

\* `if not client: return []`
GenNoClient ==
    /\ g_pc = "start"
    /\ ~g_client
    /\ g_ret' = <<>>
    /\ g_pc' = "done"
    /\ UNCHANGED <<g_client, g_students, g_table, g_records>>
    /\ UNCHANGED <<valVars, clsVars, img, qrVars, omrVars, shVars, layVars,
                   calVars, bsVars, piVars, dbVars, rtVars>>

\* one iteration of `for student in students`: a generated code goes into
\* the student's record as it comes
GenRecord ==
    /\ g_pc = "start"
    /\ g_client
    /\ Len(g_records) < g_students
    /\ \E sheet_code \in generate_sheet_code :
          g_records' = Append(g_records, [student |-> Len(g_records) + 1,
                                          sheet_code |-> sheet_code])
    /\ UNCHANGED <<g_pc, g_client, g_students, g_table, g_ret>>
    /\ UNCHANGED <<valVars, clsVars, img, qrVars, omrVars, shVars, layVars,
                   calVars, bsVars, piVars, dbVars, rtVars>>

\* client.table('answer_sheet_students').insert(records).execute(): the
\* rows are stored and returned, or the call raises or returns no data and
\* create_students_batch returns []
GenInsert ==
    /\ g_pc = "start"
    /\ g_client
    /\ Len(g_records) = g_students
    /\ \E stored \in BOOLEAN :
          IF stored /\ g_records # <<>>
          THEN /\ g_table' = g_table \o [k \in DOMAIN g_records |->
                                            g_records[k].sheet_code]
               /\ g_ret' = g_records
          ELSE /\ g_ret' = <<>>
               /\ UNCHANGED g_table
    /\ g_pc' = "done"
    /\ UNCHANGED <<g_client, g_students, g_records>>
    /\ UNCHANGED <<valVars, clsVars, img, qrVars, omrVars, shVars, layVars,
                   calVars, bsVars, piVars, dbVars, rtVars>>

GenNext ==
    \/ GenNoClient
    \/ GenRecord
    \/ GenInsert

(***************************************************************************)
(* gabarito_generator.py: the template it draws, against the coordinates   *)
(* of app.py.  Pixel coordinates (150 DPI) are in tenths of a pixel,       *)
(* points in thousandths of a point.                                       *)
(***************************************************************************)
\* tenths of a pixel per pixel
Px == Tenth

\* PAGE_HEIGHT of A4: 841.89 points
PAGE_HEIGHT == 841890
MARKERS_150DPI ==
    [TL |-> [x |-> 57, y |-> 463], TR |-> [x |-> 1184, y |-> 463],
     BL |-> [x |-> 57, y |-> 1141], BR |-> [x |-> 1184, y |-> 1141]]
GRID_START_X == 120
GRID_START_Y == 520
BUBBLE_SPACING_X == 25
COLUMN_SPACING == 179
\* ROW_SPACING = 41.7
ROW_SPACING == 417
\* BUBBLE_RADIUS of gabarito_generator.py
BUBBLE_RADIUS_gen == 9

\* PIXEL_TO_POINTS = 72 / 150 = 0.48: tenths of a pixel to thousandths of a
\* point
px_to_pt_x(px) == px * 48
px_to_pt_y(px) == PAGE_HEIGHT - px * 48

\* the 150 DPI pixel (tenths) on which the point (x, y) of the page falls;
\* y of the page counts from the bottom
Pixel150(x, y) == [x |-> x \div 48, y |-> (PAGE_HEIGHT - y) \div 48]

\* draw_markers: the centres of the four squares
draw_markers ==
    [name \in DOMAIN MARKERS_150DPI |->
        Pixel150(px_to_pt_x(MARKERS_150DPI[name].x * Px),
                 px_to_pt_y(MARKERS_150DPI[name].y * Px))]

\* draw_bubble_grid: centre and radius of the circle of option opt_idx of
\* the question at (col_idx, row_idx)
draw_bubble_grid(col_idx, row_idx, opt_idx) ==
    LET y == GRID_START_Y * Px + row_idx * ROW_SPACING
        x == (GRID_START_X + col_idx * COLUMN_SPACING
                + opt_idx * BUBBLE_SPACING_X) * Px
        bubble_r_pt == px_to_pt_x(BUBBLE_RADIUS_gen * Px)
    IN  [centre |-> Pixel150(px_to_pt_x(x), px_to_pt_y(y)),
         radius |-> bubble_r_pt \div 48]

\* app.py: the markers of the full page (MARKER_TL, MARKER_BR and the two
\* corners they span)
AppMarkers ==
    [TL |-> [x |-> MARKER_TL.x * Px, y |-> MARKER_TL.y * Px],
     TR |-> [x |-> MARKER_BR.x * Px, y |-> MARKER_TL.y * Px],
     BL |-> [x |-> MARKER_TL.x * Px, y |-> MARKER_BR.y * Px],
     BR |-> [x |-> MARKER_BR.x * Px, y |-> MARKER_BR.y * Px]]

\* app.py read_question, full page at scale 1: the nominal centre of the
\* bubble, and BUBBLE_RADIUS
AppBubble(col_idx, row_idx, opt_idx) ==
    [centre |-> [x |-> (MARKER_TL.x + COLUMNS_X[col_idx + 1]
                          + opt_idx * OPTION_SPACING) * Px,
                 y |-> (MARKER_TL.y + Y_POSITIONS[row_idx + 1]) * Px],
     radius |-> BUBBLE_RADIUS * Px]

NoLayout ==
    [markers |-> [name \in {"TL", "TR", "BL", "BR"} |-> [x |-> 0, y |-> 0]],
     bubble |-> [centre |-> [x |-> 0, y |-> 0], radius |-> 0]]

LayIdle ==
    /\ l_pc = "off"
    /\ l_cell = <<0, 0, 0>>
    /\ l_gen = NoLayout
    /\ l_app = NoLayout

\* a bubble of the sheet: column, row and option
LayInit ==
    /\ l_pc = "in"
    /\ l_cell \in (0..(NUM_COLUMNS - 1)) \X (0..(QUESTIONS_PER_COLUMN - 1))
                    \X (0..(NUM_OPTIONS - 1))
    /\ l_gen = NoLayout
    /\ l_app = NoLayout

\* the bubble as the generator prints it and as the fixed-grid reader
\* expects it
Layout ==
    /\ l_pc = "in"
    /\ l_gen' = [markers |-> draw_markers,
                 bubble |-> draw_bubble_grid(l_cell[1], l_cell[2], l_cell[3])]
    /\ l_app' = [markers |-> AppMarkers,
                 bubble |-> AppBubble(l_cell[1], l_cell[2], l_cell[3])]
    /\ l_pc' = "done"
    /\ UNCHANGED <<l_cell, valVars, clsVars, img, qrVars, omrVars, shVars,
                   genVars, calVars, bsVars, piVars, dbVars, rtVars>>

(***************************************************************************)
(* app.py: calibration of the fixed-grid reader (find_corner_markers,      *)
(* deskew_image, the scale of process_omr_legacy) on images given by their *)
(* list of square candidates and their lines.                              *)
(***************************************************************************)
MaxNoise == 9

\* the square candidates of an image: the printed corner markers with the
\* areas of `corner` (0: the marker is not among the squares), a square of
\* area `extra` above the top-left marker, and `noise` squares of area 700
\* between the top and the bottom markers; in contour order (bottom of the
\* image first) or, with `topFirst`, in the reverse order
SceneSquares(im, corner, extra, noise, topFirst) ==
    LET opt(c, area) == IF area = 0 THEN <<>> ELSE <<Square(c, area)>>
        list == opt(PrintedBR(im), corner.BR) \o opt(PrintedBL(im), corner.BL)
                \o [k \in 1..noise |-> Square(At(im, 60, 900 - 10 * k), 700)]
                \o opt(PrintedTR(im), corner.TR) \o opt(PrintedTL(im), corner.TL)
                \o opt(At(im, 60, 300), extra)
    IN  IF topFirst THEN [k \in 1..Len(list) |-> list[Len(list) + 1 - k]]
        ELSE list

LineCases ==
    {NoLines, Lines(4, TRUE, 200), Lines(7, FALSE, 0), Lines(7, TRUE, 20),
     Lines(7, TRUE, 30), Lines(7, TRUE, -200), Lines(7, TRUE, 1200)}

AlignImage(size, squares, lines) ==
    [w |-> size.w, h |-> size.h, sq |-> "list", squares |-> squares,
     lines |-> lines]

AlignImages ==
    {AlignImage(size,
                SceneSquares(size, [TL |-> tl, TR |-> tr, BL |-> 961, BR |-> br],
                             extra, noise, topFirst),
                lines) :
        size \in {SIZE_150, SIZE_300}, tl \in {0, 450, 961}, tr \in {0, 961},
        br \in {0, 450, 961}, extra \in {0, 961, 1200},
        noise \in 0..MaxNoise, topFirst \in BOOLEAN, lines \in LineCases}

\* process_omr_legacy: scale_x and scale_y as fractions, from the result
\* of deskew_image
legacy_scale(cal) ==
    IF cal.aligned
    THEN [x |-> [num |-> cal.w, den |-> REF_WIDTH],
          y |-> [num |-> cal.h, den |-> REF_HEIGHT]]
    ELSE [x |-> [num |-> cal.w, den |-> REF_WIDTH_FULL],
          y |-> [num |-> cal.h, den |-> REF_HEIGHT_FULL]]

NoCal == [aligned |-> FALSE, w |-> 0, h |-> 0]
NoScale == [x |-> [num |-> 0, den |-> 1], y |-> [num |-> 0, den |-> 1]]

AlIdle ==
    /\ a_pc = "off"
    /\ a_img = AlignImage(SIZE_150, <<>>, NoLines)
    /\ a_markers = NoMarkers
    /\ a_cal = NoCal
    /\ a_scale = NoScale

AlInit ==
    /\ a_pc = "in"
    /\ a_img \in AlignImages
    /\ a_markers = NoMarkers
    /\ a_cal = NoCal
    /\ a_scale = NoScale

\* `img, aligned = deskew_image(img)`, with the markers align_to_markers
\* got from find_corner_markers
AlDeskew ==
    /\ a_pc = "in"
    /\ a_markers' = find_corner_markers(a_img)
    /\ a_cal' = deskew_image(a_img)
    /\ a_pc' = "deskewed"
    /\ UNCHANGED <<a_img, a_scale>>
    /\ UNCHANGED <<valVars, clsVars, img, qrVars, omrVars, shVars, genVars,
                   layVars, bsVars, piVars, dbVars, rtVars>>

\* `h, w = gray.shape` and the scale of process_omr_legacy
AlScale ==
    /\ a_pc = "deskewed"
    /\ a_scale' = legacy_scale(a_cal)
    /\ a_pc' = "done"
    /\ UNCHANGED <<a_img, a_markers, a_cal>>
    /\ UNCHANGED <<valVars, clsVars, img, qrVars, omrVars, shVars, genVars,
                   layVars, bsVars, piVars, dbVars, rtVars>>

AlNext ==
    \/ AlDeskew
    \/ AlScale

(***************************************************************************)
(* app.py: analyze_bubble_with_search.  The image is given by its height   *)
(* and by what the dark-pixel ratio of the ROI is around each centre: a    *)
(* mark displaced by (bx, by) from the nominal centre gives `peak` when    *)
(* the ROI is centred on it and `base` elsewhere.  Scales are in percent.  *)
(***************************************************************************)
BubbleField(h, bx, by, peak, base) ==
    [h |-> h, bx |-> bx, by |-> by, peak |-> peak, base |-> base]

\* (dark_pixels / roi.size) * 100.0 of the ROI centred dx, dy away from the
\* nominal centre
RoiDarkness(gray, dx, dy) ==
    IF dx = gray.bx /\ dy = gray.by THEN gray.peak ELSE gray.base

\* the loop `for dy in range(-search_range, search_range + 1, 5)` from dy
\* on, best_darkness being `best`
RECURSIVE SearchLoop(_, _, _, _, _, _)
SearchLoop(gray, y, r, search_range, dy, best) ==
    IF dy >= search_range + 1 THEN best
    ELSE LET test_y == y + dy
             darkness == RoiDarkness(gray, 0, dy)
         IN  IF test_y - r < 0 \/ test_y + r >= gray.h
             THEN SearchLoop(gray, y, r, search_range, dy + 5, best)
             ELSE SearchLoop(gray, y, r, search_range, dy + 5,
                             IF darkness > best THEN darkness ELSE best)

\* analyze_bubble_with_search without the search: the ROI at (x, y) alone
analyze_bubble_with_search_nominal(gray, y, scale_x, scale_y) ==
    LET r == (BUBBLE_RADIUS * scale_x * 13) \div 1000
    IN  IF y - r < 0 \/ y + r >= gray.h THEN 0
        ELSE RoiDarkness(gray, 0, 0)

\* analyze_bubble_with_search(gray, x, y, scale_x, scale_y) for an x inside
\* the image
analyze_bubble_with_search(gray, y, scale_x, scale_y) ==
    LET r == (BUBBLE_RADIUS * scale_x * 13) \div 1000
        search_range == (15 * scale_y) \div 100
    IN  SearchLoop(gray, y, r, search_range, -search_range, 0)

SearchScales == {100, 114, 200}
\* the rectified image, A4 at 150 and 300 DPI, and a scan 2000 pixels high
SearchHeights == {REF_HEIGHT, SIZE_150.h, SIZE_300.h, 2000}
SearchArgs ==
    {[gray |-> BubbleField(h, bx, by, dark[1], dark[2]), y |-> y,
      scale |-> scale] :
        h \in SearchHeights, y \in {10, 30, 600, 660},
        scale \in SearchScales, bx \in {-5, 0, 5},
        by \in {-15, -10, -2, 0, 3, 5, 15, 30},
        dark \in {<<3500, 0>>, <<9000, 3050>>, <<9000, 9000>>}}

BsIdle ==
    /\ b_pc = "off"
    /\ b_arg = [gray |-> BubbleField(0, 0, 0, 0, 0), y |-> 0, scale |-> 100]
    /\ b_ret = 0

BsInit ==
    /\ b_pc = "in"
    /\ b_arg \in SearchArgs
    /\ b_ret = 0

\* darkness = analyze_bubble_with_search(gray, x, y, scale_x, scale_y)
BubbleSearch ==
    /\ b_pc = "in"
    /\ b_ret' = analyze_bubble_with_search(b_arg.gray, b_arg.y, b_arg.scale,
                                           b_arg.scale)
    /\ b_pc' = "done"
    /\ UNCHANGED <<b_arg, valVars, clsVars, img, qrVars, omrVars, shVars,
                   genVars, layVars, calVars, piVars, dbVars, rtVars>>

(***************************************************************************)
(* Concurrent requests: /api/process-image of app.py (Flask) and           *)
(* /process-image of modal_app.py (FastAPI), two invocations at a time.    *)
(* The state every invocation shares: the module-level USE_HOUGH_OMR of    *)
(* app.py (use_hough), os.environ['OMR_DEBUG'] (k_env) and the number of   *)
(* times the module app was executed (k_loads).                            *)
(***************************************************************************)
\* the uploads of the two requests
PiFiles ==
    {Image(SIZE_150, NoQr, "four", "nominal", "four", 1),
     Image(SIZE_150, NoQr, "four", "rows14", "four", 0),
     Image(SIZE_150, NoQr, "none", "nominal", "none", 1)}

NoPiResp ==
    [status |-> "", questoes |-> <<>>, respondidas |-> 0, em_branco |-> 0,
     dupla_marcacao |-> 0, elapsed_ms |-> 0]

\* the body both handlers build from the result of process_omr
PiResponse(result) ==
    [status |-> "sucesso",
     questoes |-> [i \in DOMAIN result.answers |->
                     IF result.answers[i] = "None" THEN ""
                     ELSE result.answers[i]],
     respondidas |-> result.answered,
     em_branco |-> result.blank,
     dupla_marcacao |-> result.double_marked,
     elapsed_ms |-> result.elapsed_ms]

\* the body of the `except Exception` of both handlers
PiError == [NoPiResp EXCEPT !.status = "erro"]

PiIdle ==
    /\ k_host = "off"
    /\ k_importable = TRUE
    /\ k_pc = [i \in Invocations |-> "off"]
    /\ k_file = [i \in Invocations |-> NoImage]
    /\ k_debug = [i \in Invocations |-> FALSE]
    /\ k_img = [i \in Invocations |-> NoImage]
    /\ k_resp = [i \in Invocations |-> NoPiResp]
    /\ k_env = "unset"
    /\ k_loads = 0
    /\ k_steps = <<>>

\* two requests arrive at a server; under Flask app.py has been executed
\* once, under FastAPI it has not been imported yet
PiInit ==
    /\ k_host \in {"flask", "modal"}
    /\ k_importable \in BOOLEAN
    /\ k_pc = [i \in Invocations |-> "request"]
    /\ k_file \in [Invocations -> PiFiles]
    /\ k_debug \in [Invocations -> BOOLEAN]
    /\ k_img = [i \in Invocations |-> NoImage]
    /\ k_resp = [i \in Invocations |-> NoPiResp]
    /\ k_env = "unset"
    /\ k_loads = (IF k_host = "flask" THEN 1 ELSE 0)
    /\ k_steps = <<>>

\* PiRequest with the decoded image kept in a module-level variable
PiRequest_moduleImage(i) ==
    /\ k_pc[i] = "request"
    /\ IF k_host = "modal"
       THEN /\ k_env' = (IF k_debug[i] THEN "true" ELSE "false")
            /\ k_pc' = [k_pc EXCEPT ![i] = "load"]
            /\ UNCHANGED k_img
       ELSE /\ k_img' = [j \in Invocations |-> k_file[i]]
            /\ k_pc' = [k_pc EXCEPT ![i] = "call"]
            /\ UNCHANGED k_env
    /\ k_steps' = Append(k_steps, i)
    /\ UNCHANGED <<k_host, k_importable, k_file, k_debug, k_resp, k_loads>>
    /\ UNCHANGED <<valVars, clsVars, img, qrVars, omrVars, shVars, genVars,
                   layVars, calVars, bsVars, dbVars, rtVars>>

\* the start of the handler.  app.py: the upload is read and decoded into
\* the local img_array.  modal_app.py: os.environ['OMR_DEBUG'] is set from
\* the form field `debug`.
PiRequest(i) ==
    /\ k_pc[i] = "request"
    /\ IF k_host = "modal"
       THEN /\ k_env' = (IF k_debug[i] THEN "true" ELSE "false")
            /\ k_pc' = [k_pc EXCEPT ![i] = "load"]
            /\ UNCHANGED k_img
       ELSE /\ k_img' = [k_img EXCEPT ![i] = k_file[i]]
            /\ k_pc' = [k_pc EXCEPT ![i] = "call"]
            /\ UNCHANGED k_env
    /\ k_steps' = Append(k_steps, i)
    /\ UNCHANGED <<k_host, k_importable, k_file, k_debug, k_resp, k_loads>>
    /\ UNCHANGED <<valVars, clsVars, img, qrVars, omrVars, shVars, genVars,
                   layVars, calVars, bsVars, dbVars, rtVars>>

\* modal_app.py get_process_omr(force_debug=debug): importlib.reload(app)
\* with debug, else `from app import process_omr`, which executes app.py if
\* it was not imported yet.  Executing app.py sets USE_HOUGH_OMR to whether
\* xtri_gabarito_reader can be imported.  Then the upload is awaited and
\* decoded into the local img_array.
PiLoad(i) ==
    /\ k_pc[i] = "load"
    /\ k_img' = [k_img EXCEPT ![i] = k_file[i]]
    /\ IF k_debug[i] \/ k_loads = 0
       THEN /\ use_hough' = k_importable
            /\ k_loads' = k_loads + 1
       ELSE UNCHANGED <<use_hough, k_loads>>
    /\ k_pc' = [k_pc EXCEPT ![i] = "call"]
    /\ k_steps' = Append(k_steps, i)
    /\ UNCHANGED <<k_host, k_importable, k_file, k_debug, k_resp, k_env>>
    /\ UNCHANGED <<p_pc, p_calls, p_hough, p_res>>
    /\ UNCHANGED <<valVars, clsVars, img, qrVars, shVars, genVars, layVars,
                   calVars, bsVars, dbVars, rtVars>>

\* the call of process_omr.  app.py: process_omr(img_array), which reads
\* USE_HOUGH_OMR and returns the Hough result or goes on to the legacy
\* reader.  modal_app.py: process_omr(img_array, page), a TypeError (one
\* parameter, two arguments) that the handler answers with status 500.
PiCall(i) ==
    /\ k_pc[i] = "call"
    /\ IF k_host = "modal"
       THEN /\ k_resp' = [k_resp EXCEPT ![i] = PiError]
            /\ k_pc' = [k_pc EXCEPT ![i] = "done"]
       ELSE LET result == hough_process_omr(k_img[i])
            IN  IF use_hough /\ ~result.raised /\ result.success
                THEN /\ \E elapsed \in 0..MaxElapsed :
                          k_resp' = [k_resp EXCEPT ![i] =
                                        PiResponse(HoughReturn(result, elapsed))]
                     /\ k_pc' = [k_pc EXCEPT ![i] = "done"]
                ELSE /\ k_pc' = [k_pc EXCEPT ![i] = "legacy"]
                     /\ UNCHANGED k_resp
    /\ k_steps' = Append(k_steps, i)
    /\ UNCHANGED <<k_host, k_importable, k_file, k_debug, k_img, k_env,
                   k_loads>>
    /\ UNCHANGED <<valVars, clsVars, img, qrVars, omrVars, shVars, genVars,
                   layVars, calVars, bsVars, dbVars, rtVars>>

\* app.py: `return process_omr_legacy(img, start_time)` and the response
PiLegacy(i) ==
    /\ k_pc[i] = "legacy"
    /\ \E elapsed \in 0..MaxElapsed :
          k_resp' = [k_resp EXCEPT ![i] =
                        PiResponse(LegacyReturn(k_img[i], elapsed))]
    /\ k_pc' = [k_pc EXCEPT ![i] = "done"]
    /\ k_steps' = Append(k_steps, i)
    /\ UNCHANGED <<k_host, k_importable, k_file, k_debug, k_img, k_env,
                   k_loads>>
    /\ UNCHANGED <<valVars, clsVars, img, qrVars, omrVars, shVars, genVars,
                   layVars, calVars, bsVars, dbVars, rtVars>>

PiNext ==
    \/ \E i \in Invocations : PiRequest(i)
    \/ \E i \in Invocations : PiLoad(i)
    \/ \E i \in Invocations : PiCall(i)
    \/ \E i \in Invocations : PiLegacy(i)

(***************************************************************************)
(* detect_bubbles on its own: the circles of a sheet and one more circle    *)
(* (the probe) at a position on or around the border of the grid.           *)
(***************************************************************************)
\* an image of a sheet with the circles of case `circ`; with "probe", the
\* printed bubbles without those of `missing` and a circle at (x, y)
ProbeImage(size, circ, missing, x, y) ==
    [w |-> size.w, h |-> size.h, qr |-> NoQr, gm |-> "four", sq |-> "four",
     circ |-> circ, hdp |-> 0, ldp |-> 1, lines |-> NoLines,
     missing |-> missing, probe |-> [x |-> x, y |-> y]]

\* positions at 150 DPI: the borders of the filter are x = 35 and 1205,
\* y = 465 and 1160; (600, 854) lies in row 8 between bubbles 14 and 15
ProbeXs == {30, 35, 36, 600, 1204, 1205}
ProbeYs == {445, 446, 465, 466, 854, 1159, 1160}

ProbeImages ==
    {ProbeImage(size, "probe", missing, x, y) :
        size \in {SIZE_150, SIZE_300},
        missing \in {{}, {[row |-> 8, k |-> 14]}},
        x \in ProbeXs, y \in ProbeYs}
    \cup {ProbeImage(size, circ, {}, 0, 0) :
            size \in {SIZE_150, SIZE_300}, circ \in CircCases}

\* the probe as cv2.HoughCircles returns it
ProbeCircle(im) == Stray(im, im.probe.x, im.probe.y)

NoProbe == ProbeImage([w |-> 0, h |-> 0], "", {}, 0, 0)

DbIdle ==
    /\ d_pc = "off"
    /\ d_im = NoProbe
    /\ d_kept = FALSE
    /\ d_grid = 0
    /\ d_rows = <<>>
    /\ d_ret = <<>>

DbInit ==
    /\ d_pc = "in"
    /\ d_im \in ProbeImages
    /\ d_kept = FALSE
    /\ d_grid = 0
    /\ d_rows = <<>>
    /\ d_ret = <<>>

\* one call detect_bubbles(gray, markers) with the markers of
\* find_grid_markers: whether the filter keeps the probe, the number of
\* circles it keeps, the sizes of the rows, and the list returned
DetectBubbles ==
    /\ d_pc = "in"
    /\ LET markers == find_grid_markers(d_im)
           rows == grid_rows(d_im, markers)
       IN  /\ d_kept' = (/\ d_im.circ = "probe"
                         /\ InGrid(ProbeCircle(d_im), markers,
                                   XtriScaled(d_im, 20)))
           /\ d_grid' = Len(grid_circles(d_im, markers))
           /\ d_rows' = [j \in 1..Len(rows) |-> Len(rows[j])]
           /\ d_ret' = detect_bubbles(d_im, markers)
    /\ d_pc' = "done"
    /\ UNCHANGED d_im
    /\ UNCHANGED <<valVars, clsVars, img, qrVars, omrVars, shVars, genVars,
                   layVars, calVars, bsVars, piVars, rtVars>>

(***************************************************************************)
(* The sheet codes of the two generators, handed to the validators          *)
(***************************************************************************)
\* gabarito_generator.py: chars = string.ascii_uppercase + string.digits
GEN_CODE_CHARS ==
    <<"A", "B", "C", "D", "E", "F", "G", "H", "I", "J", "K", "L", "M", "N",
      "O", "P", "Q", "R", "S", "T", "U", "V", "W", "X", "Y", "Z", "0", "1",
      "2", "3", "4", "5", "6", "7", "8", "9">>

\* what random.choice(chars) may return in gabarito_generator.py: any
\* character of chars (here the first MaxChars letters and the first
\* MaxChars digits)
GenRandomChoice ==
    {GEN_CODE_CHARS[k] : k \in 1..Min(MaxChars, Len(GEN_CODE_CHARS))}
    \cup {GEN_CODE_CHARS[26 + k] : k \in 1..Min(MaxChars, 10)}

\* gabarito_generator.py generate_sheet_code: the values it may return
generate_sheet_code_gen ==
    {XTRI_PREFIX \o random_part : random_part \in [1..CODE_LEN -> GenRandomChoice]}

RtIdle ==
    /\ r_pc = "off"
    /\ r_by = ""
    /\ r_code = <<>>
    /\ r_app = FALSE
    /\ r_qr = FALSE

RtInit ==
    /\ r_pc = "start"
    /\ r_by = ""
    /\ r_code = <<>>
    /\ r_app = FALSE
    /\ r_qr = FALSE

\* app.py generate_sheet_code() returns a code (the registry)
RtGenerateApp ==
    /\ r_pc = "start"
    /\ r_code' \in generate_sheet_code
    /\ r_by' = "app"
    /\ r_pc' = "code"
    /\ UNCHANGED <<r_app, r_qr>>
    /\ UNCHANGED <<valVars, clsVars, img, qrVars, omrVars, shVars, genVars,
                   layVars, calVars, bsVars, piVars, dbVars>>

\* gabarito_generator.py generate_sheet_code() returns a code (the printed
\* sheet)
RtGenerateGen ==
    /\ r_pc = "start"
    /\ r_code' \in generate_sheet_code_gen
    /\ r_by' = "gabarito_generator"
    /\ r_pc' = "code"
    /\ UNCHANGED <<r_app, r_qr>>
    /\ UNCHANGED <<valVars, clsVars, img, qrVars, omrVars, shVars, genVars,
                   layVars, calVars, bsVars, piVars, dbVars>>

\* validate_sheet_code of app.py and of qr_reader_module.py on the code
RtValidate ==
    /\ r_pc = "code"
    /\ r_app' = validate_sheet_code_app(Some(r_code))
    /\ r_qr' = validate_sheet_code_qr(Some(r_code))
    /\ r_pc' = "done"
    /\ UNCHANGED <<r_by, r_code>>
    /\ UNCHANGED <<valVars, clsVars, img, qrVars, omrVars, shVars, genVars,
                   layVars, calVars, bsVars, piVars, dbVars>>

RtNext ==
    \/ RtGenerateApp
    \/ RtGenerateGen
    \/ RtValidate

(***************************************************************************)
(* Specifications                                                          *)
(***************************************************************************)
InitValidate ==
    ValInit /\ ClsIdle /\ QrIdle /\ OmrIdle /\ ShIdle /\ img = NoImage
    /\ GenIdle
    /\ LayIdle
    /\ AlIdle
    /\ BsIdle
    /\ PiIdle
    /\ DbIdle
    /\ RtIdle

SpecValidate == InitValidate /\ [][Validate]_vars

InitClassify ==
    ClsInit /\ ValIdle /\ QrIdle /\ OmrIdle /\ ShIdle /\ img = NoImage
    /\ GenIdle
    /\ LayIdle
    /\ AlIdle
    /\ BsIdle
    /\ PiIdle
    /\ DbIdle
    /\ RtIdle

SpecClassify == InitClassify /\ [][Classify]_vars

QrNext ==
    \/ QrAttempt
    \/ QrNotFoundReturn

InitQr ==
    img \in QrImages /\ QrStart /\ ValIdle /\ ClsIdle /\ OmrIdle /\ ShIdle
    /\ GenIdle
    /\ LayIdle
    /\ AlIdle
    /\ BsIdle
    /\ PiIdle
    /\ DbIdle
    /\ RtIdle

SpecQr == InitQr /\ [][QrNext]_vars

InitOmr ==
    img \in OmrImages /\ OmrInit /\ ValIdle /\ ClsIdle /\ QrIdle /\ ShIdle
    /\ GenIdle
    /\ LayIdle
    /\ AlIdle
    /\ BsIdle
    /\ PiIdle
    /\ DbIdle
    /\ RtIdle

SpecOmr == InitOmr /\ [][OmrNext]_vars

\* a request arrives; process_omr has not been called
InitSheet ==
    /\ img = NoImage /\ ShInit /\ ValIdle /\ ClsIdle /\ QrIdle
    /\ use_hough \in BOOLEAN
    /\ p_pc = [i \in Invocations |-> "off"]
    /\ p_calls = [i \in Invocations |-> <<>>]
    /\ p_hough = [i \in Invocations |-> NoHough]
    /\ p_res = [i \in Invocations |-> NoResult]
    /\ GenIdle
    /\ LayIdle
    /\ AlIdle
    /\ BsIdle
    /\ PiIdle
    /\ DbIdle
    /\ RtIdle

SpecSheet == InitSheet /\ [][SheetNext]_vars

InitCodes ==
    /\ img = NoImage /\ GenInit /\ ValIdle /\ ClsIdle /\ QrIdle /\ OmrIdle
    /\ ShIdle
    /\ LayIdle
    /\ AlIdle
    /\ BsIdle
    /\ PiIdle
    /\ DbIdle
    /\ RtIdle

SpecCodes == InitCodes /\ [][GenNext]_vars

InitLayout ==
    /\ img = NoImage /\ LayInit /\ ValIdle /\ ClsIdle /\ QrIdle /\ OmrIdle
    /\ ShIdle /\ GenIdle
    /\ AlIdle
    /\ BsIdle
    /\ PiIdle
    /\ DbIdle
    /\ RtIdle

SpecLayout == InitLayout /\ [][Layout]_vars

InitAlign ==
    /\ img = NoImage /\ AlInit /\ ValIdle /\ ClsIdle /\ QrIdle /\ OmrIdle
    /\ ShIdle /\ GenIdle /\ LayIdle
    /\ BsIdle
    /\ PiIdle
    /\ DbIdle
    /\ RtIdle

SpecAlign == InitAlign /\ [][AlNext]_vars

InitSearch ==
    /\ img = NoImage /\ BsInit /\ ValIdle /\ ClsIdle /\ QrIdle /\ OmrIdle
    /\ ShIdle /\ GenIdle /\ LayIdle /\ AlIdle
    /\ PiIdle
    /\ DbIdle
    /\ RtIdle

SpecSearch == InitSearch /\ [][BubbleSearch]_vars

InitRequests ==
    /\ img = NoImage /\ PiInit /\ ValIdle /\ ClsIdle /\ QrIdle /\ ShIdle
    /\ GenIdle /\ LayIdle /\ AlIdle /\ BsIdle
    /\ use_hough = k_importable
    /\ p_pc = [i \in Invocations |-> "off"]
    /\ p_calls = [i \in Invocations |-> <<>>]
    /\ p_hough = [i \in Invocations |-> NoHough]
    /\ p_res = [i \in Invocations |-> NoResult]
    /\ DbIdle
    /\ RtIdle

SpecRequests == InitRequests /\ [][PiNext]_vars

InitBubbles ==
    /\ img = NoImage /\ DbInit /\ ValIdle /\ ClsIdle /\ QrIdle /\ OmrIdle
    /\ ShIdle /\ GenIdle /\ LayIdle /\ AlIdle /\ BsIdle /\ PiIdle
    /\ RtIdle

SpecBubbles == InitBubbles /\ [][DetectBubbles]_vars

InitRoundTrip ==
    /\ img = NoImage /\ RtInit /\ ValIdle /\ ClsIdle /\ QrIdle /\ OmrIdle
    /\ ShIdle /\ GenIdle /\ LayIdle /\ AlIdle /\ BsIdle /\ PiIdle /\ DbIdle

SpecRoundTrip == InitRoundTrip /\ [][RtNext]_vars

(***************************************************************************)
(* Properties                                                              *)
(***************************************************************************)
OneMarked(i) == [j \in 1..NUM_OPTIONS |-> IF j = i THEN 100 * Unit ELSE 0]
TwoMarked(i, k) ==
    [j \in 1..NUM_OPTIONS |-> IF j = i \/ j = k THEN 90 * Unit ELSE 0]
NoneMarked == [j \in 1..NUM_OPTIONS |-> 0]

\* C3: for both classifiers and every option position: one bubble at 100%
\* and the others at 0% gives that bubble's letter; two bubbles at 90% and
\* the others at 0% gives the double-mark outcome ('X' from read_question,
\* None with the double_mark warning from detect_answer); all five at 0%
\* gives the blank outcome (None, no warning).
C3_ClassifierBoundaries ==
    c_pc = "done" =>
        /\ \A i \in 1..NUM_OPTIONS :
              c_dark = OneMarked(i) =>
                  /\ c_rq = OPTIONS[i]
                  /\ c_da.answer = OPTIONS[i] /\ c_da.warning = ""
        /\ \A i, k \in 1..NUM_OPTIONS :
              (i # k /\ c_dark = TwoMarked(i, k)) =>
                  /\ c_rq = "X"
                  /\ c_da.answer = "None" /\ c_da.warning = "double_mark"
        /\ c_dark = NoneMarked =>
              /\ c_rq = "None"
              /\ c_da.answer = "None" /\ c_da.warning = ""

C3_Witness ==
    /\ c_pc = "done"
    /\ c_dark = TwoMarked(2, 4)
    /\ c_rq = "X"
    /\ c_da.warning = "double_mark"

\* C4: both validators agree on every input and accept a string only if it
\* is exactly 'XTRI-' followed by exactly 6 code characters (11 characters
\* in all); None and '' are rejected; 'XTRI-A7B3C9' is accepted and
\* 'ABCD-234567' rejected.
C4_ExactPatternOnly ==
    v_pc = "done" =>
        /\ v_app = v_qr
        /\ v_app =>
              /\ ~v_code.none
              /\ Len(v_code.text) = Len(XTRI_PREFIX) + CODE_LEN
              /\ SubSeq(v_code.text, 1, Len(XTRI_PREFIX)) = XTRI_PREFIX
        /\ v_code = Some(CODE_A7B3C9) => v_app
        /\ v_code = Some(CODE_ABCD) => ~v_app

\* the order of attempts the documentation states
C5_Order == <<"roi", "full", "enhanced", "binary", "scaled_50", "scaled_75">>

\* what attempt k of C5_Order yields on the image: the decode of its image
\* variant, except that a scaled attempt on an image whose scaled width or
\* height is under 100 pixels decodes nothing
C5_Yield(k) ==
    LET m == C5_Order[k]
        pct == IF m = "scaled_50" THEN 50 ELSE IF m = "scaled_75" THEN 75 ELSE 100
    IN  IF (img.w * pct) \div 100 < 100 \/ (img.h * pct) \div 100 < 100
        THEN Miss ELSE img.qr[m]
C5_NonEmpty(k) == C5_Yield(k).kind = "text" /\ C5_Yield(k).text # <<>>
C5_Hits == {k \in DOMAIN C5_Order : C5_NonEmpty(k)}
C5_First == CHOOSE k \in C5_Hits : \A j \in C5_Hits : k <= j

\* C5: the attempts run are always an initial part of roi, full, enhanced,
\* binary, scaled_50, scaled_75, in that order; the call returns the text and
\* the method name of the first attempt in that order with a non-empty
\* decode, having run no later attempt; an attempt that raises (or decodes
\* nothing, or '') is a miss and the next one is run; when all six miss the
\* result is success=False, sheet_code=None, method=None, valid=False.
C5_OrderedFallback ==
    /\ Len(q_tried) <= Len(C5_Order)
    /\ q_tried = SubSeq(C5_Order, 1, Len(q_tried))
    /\ \A k \in 1..Len(q_tried) : k < Len(q_tried) => ~C5_NonEmpty(k)
    /\ q_pc = "done" =>
          IF C5_Hits = {}
          THEN /\ q_tried = C5_Order
               /\ q_res = [success |-> FALSE, sheet_code |-> NoneStr,
                           method |-> "None", valid |-> FALSE]
          ELSE /\ Len(q_tried) = C5_First
               /\ q_res.success
               /\ q_res.method = C5_Order[C5_First]
               /\ q_res.sheet_code = Some(C5_Yield(C5_First).text)

C5_Witness ==
    /\ q_pc = "done"
    /\ q_res.success
    /\ q_res.method = "scaled_75"
    /\ img.qr["full"] = Raise
    /\ img.qr["scaled_50"] # Miss

\* C6: a returned sheet_code is exactly the non-empty text of the first
\* attempt that decoded one, whether or not it validates; valid equals
\* validate_sheet_code(sheet_code); so a text that fails the pattern is
\* returned with success=True and valid=False, not dropped, replaced or
\* skipped in favour of a later attempt.
C6_InvalidTextReturned ==
    q_pc = "done" =>
        /\ q_res.success <=> C5_Hits # {}
        /\ q_res.success =>
              /\ q_res.sheet_code = Some(C5_Yield(C5_First).text)
              /\ q_res.valid = validate_sheet_code_qr(q_res.sheet_code)
              /\ (~validate_sheet_code_app(Some(C5_Yield(C5_First).text))
                     => ~q_res.valid)

C6_Witness ==
    /\ q_pc = "done"
    /\ q_res.success
    /\ q_res.sheet_code = Some(CODE_ABCD)
    /\ ~q_res.valid
    /\ \E m \in {"binary", "scaled_75"} : img.qr[m] = Txt(CODE_A7B3C9)

\* C1: every result process_omr returns, by the Hough path or by the legacy
\* path, carries exactly 90 answers and its three counts add up to 90.
C1_CountsSumTo90 ==
    \A i \in Invocations :
        p_pc[i] = "done" =>
            /\ Len(p_res[i].answers) = 90
            /\ p_res[i].answered + p_res[i].blank + p_res[i].double_marked = 90

C1_Witness ==
    /\ p_pc[1] = "done" /\ p_res[1].method = "hough"
    /\ p_pc[2] = "done" /\ p_res[2].method = "hough"
    /\ p_res[1].double_marked > 0 /\ p_res[1].blank > 0 /\ p_res[1].answered > 0

\* the circles HoughCircles finds in im that lie inside the grid bounds, and
\* the rows they fall in
C2_GridCircles(im) ==
    LET markers == find_grid_markers(im)
    IN  SelectSeq(HoughCircles(im).list,
                  LAMBDA c : InGrid(c, markers, XtriScaled(im, 20)))
C2_Rows(im) == RowsOf(SortByY(C2_GridCircles(im)), XtriScaled(im, 25))
C2_Malformed(im) ==
    \/ Len(C2_GridCircles(im)) < 400
    \/ Len(C2_Rows(im)) # 15
    \/ \E j \in DOMAIN C2_Rows(im) : Len(C2_Rows(im)[j]) # 30
\* the images on which the detected-grid strategy gets as far as looking for
\* the circles and finds them malformed
C2_MalformedImages ==
    {im \in OmrImages : /\ ~read_qr_code_xtri(im).raised
                        /\ find_grid_markers(im).found
                        /\ C2_Malformed(im)}

\* C2: when the detected-grid strategy has run on an image with fewer than
\* 400 circles inside the grid bounds, or not exactly 15 rows, or a row
\* without exactly 30 circles, process_answer_sheet reported success = False,
\* and process_omr returns only after process_omr_legacy ran, after it, on
\* the same image, and returns the legacy result.
C2_FailOverToLegacy ==
    \A i \in Invocations :
        (p_calls[i] # <<>> /\ p_calls[i][1] = "hough" /\ img \in C2_MalformedImages)
        =>  /\ ~p_hough[i].success
            /\ ~p_hough[i].raised
            /\ p_pc[i] \in {"legacy", "done"}
            /\ p_pc[i] = "done" =>
                  /\ p_calls[i] = <<"hough", "legacy">>
                  /\ p_res[i].method = "legacy"
                  /\ p_res[i] = LegacyReturn(img, p_res[i].elapsed_ms)

C2_Witness ==
    /\ p_pc[1] = "done"
    /\ p_calls[1] = <<"hough", "legacy">>
    /\ img \in C2_MalformedImages
    /\ img.circ = "lack1extra1"
    /\ p_res[1].method = "legacy"
    /\ Len(p_res[1].answers) = 90

\* C8: process_answer_sheet is all-or-nothing: with success = False its
\* answers map is empty and answered, blank and double_marked are 0; with
\* success = True the keys of its answers map are exactly '1'..'90'.
C8_AllOrNothing ==
    \A i \in Invocations :
        (p_calls[i] # <<>> /\ p_calls[i][1] = "hough") =>
            LET r == p_hough[i]
            IN  /\ ~r.success =>
                      /\ DOMAIN r.answers = {}
                      /\ r.stats.answered = 0
                      /\ r.stats.blank = 0
                      /\ r.stats.double_marked = 0
                /\ r.success =>
                      DOMAIN r.answers = {Str(n) : n \in 1..90}

\* a grid with one circle missing: 84 questions are mapped, none is reported
C8_Witness ==
    /\ p_calls[1] # <<>>
    /\ p_calls[1][1] = "hough"
    /\ img.circ = "lack1"
    /\ ~p_hough[1].success
    /\ p_hough[1].error = "mapping"
    /\ DOMAIN p_hough[1].answers = {}

\* C9: when neither find_grid_markers nor find_corner_markers finds the
\* markers, process_omr, having tried both strategies, returns no set of 90
\* answers.
C9_NoAnswersWithoutMarkers ==
    \A i \in Invocations :
        (/\ p_pc[i] = "done"
         /\ p_calls[i] = <<"hough", "legacy">>
         /\ ~find_grid_markers(img).found
         /\ ~find_corner_markers(img).found)
        => Len(p_res[i].answers) # 90

C7_Undecodable(f) ==
    /\ ~f.empty
    /\ IF use_qr_module
       THEN \A k \in DOMAIN methods : ~Hit(method_func(f.im, methods[k]))
       ELSE LET r == read_qr_code_app(f.im, <<"full", "enhanced", "binary">>)
            IN  ~r.raised /\ r.code.none

\* C7: a sheet whose identity code cannot be decoded is still graded by
\* process_sheet and by batch_process: its result is a success with the 90
\* questions counted and the identity field None.
C7_GradedWithoutIdentity ==
    /\ (s_kind = "process_sheet" /\ s_pc = "done" /\ Len(s_files) = 1
            /\ C7_Undecodable(s_files[1]))
       => /\ s_resp.status = "sucesso"
          /\ s_resp.sheet_code = NoneStr
          /\ Len(s_resp.answers) = 90
          /\ s_resp.stats.answered + s_resp.stats.blank
                + s_resp.stats.double_marked = 90
    /\ \A k \in DOMAIN s_results :
          C7_Undecodable(s_files[k])
          => /\ s_results[k].status = "sucesso"
             /\ s_results[k].sheet_code = NoneStr
             /\ s_results[k].answered + s_results[k].blank
                   + s_results[k].double_marked = 90

\* what C11 says of invocation i once the detected-grid strategy is known to
\* be the first one tried
C11_Preference(i) ==
    /\ (p_pc[i] = "done" /\ ~p_hough[i].raised /\ p_hough[i].success) =>
          /\ p_calls[i] = <<"hough">>
          /\ p_res[i].method = "hough"
          /\ \A n \in 1..90 : p_res[i].answers[n] = p_hough[i].answers[Str(n)]
          /\ p_res[i].answered = p_hough[i].stats.answered
          /\ p_res[i].blank = p_hough[i].stats.blank
          /\ p_res[i].double_marked = p_hough[i].stats.double_marked
    /\ (p_pc[i] = "done" /\ p_res[i].method = "legacy") =>
          /\ p_calls[i] = <<"hough", "legacy">>
          /\ p_hough[i].raised \/ ~p_hough[i].success

\* C11 as stated: process_omr always runs the detected-grid strategy first;
\* when it succeeds its answers and counts are returned and the fixed-grid
\* strategy is not run; the legacy result is returned only after the
\* detected-grid strategy failed or raised.
C11_HoughAlwaysFirst ==
    \A i \in Invocations :
        /\ p_pc[i] \in {"legacy", "done"} =>
              (p_calls[i] # <<>> /\ p_calls[i][1] = "hough")
        /\ C11_Preference(i)

\* C11: with USE_HOUGH_OMR true, process_omr runs the detected-grid strategy
\* first, returns its answers and counts when it succeeds without running
\* the fixed-grid strategy, and returns the legacy result only after the
\* detected-grid strategy failed or raised; with USE_HOUGH_OMR false it runs
\* the fixed-grid strategy alone.
C11_HoughFirstWhenImported ==
    \A i \in Invocations :
        /\ use_hough =>
              /\ p_pc[i] \in {"legacy", "done"} =>
                    (p_calls[i] # <<>> /\ p_calls[i][1] = "hough")
              /\ C11_Preference(i)
        /\ ~use_hough =>
              /\ p_calls[i] \in {<<>>, <<"legacy">>}
              /\ p_pc[i] = "done" => p_res[i].method = "legacy"

C11_Witness ==
    /\ use_hough
    /\ p_pc[1] = "done"
    /\ p_calls[1] = <<"hough">>
    /\ p_res[1].method = "hough"
    /\ p_res[1].answered = p_hough[1].stats.answered
    /\ p_res[1].answered > 0
    /\ p_pc[2] = "start"

\* the cells of the answer grid: column c (0..5), row r (0..14)
C12_Cells == (0..5) \X (0..14)
C12_Number(cell) == cell[1] * 15 + cell[2] + 1
\* the classification, by each strategy, of what is printed in a cell
C12_HoughOption(im, cell, o) ==
    [option |-> OPTIONS[o],
     darkness |-> HoughDarkAt(im, [row |-> cell[2], k |-> 5 * cell[1] + o - 1])]
C12_HoughCell(im, cell) ==
    detect_answer(<<C12_HoughOption(im, cell, 1), C12_HoughOption(im, cell, 2),
                    C12_HoughOption(im, cell, 3), C12_HoughOption(im, cell, 4),
                    C12_HoughOption(im, cell, 5)>>).answer
C12_LegacyOption(im, aligned, cell, o) ==
    [label |-> OPTIONS[o],
     darkness |-> LegacyDarkAt(im, aligned, cell[1], cell[2], o - 1)]
C12_LegacyCell(im, aligned, cell) ==
    read_question(<<C12_LegacyOption(im, aligned, cell, 1),
                    C12_LegacyOption(im, aligned, cell, 2),
                    C12_LegacyOption(im, aligned, cell, 3),
                    C12_LegacyOption(im, aligned, cell, 4),
                    C12_LegacyOption(im, aligned, cell, 5)>>)
\* per image: the pairs <<question number, classification of its cell>>
C12_Table ==
    {[im |-> im,
      hough |-> {<<C12_Number(cell), C12_HoughCell(im, cell)>> : cell \in C12_Cells},
      legacy |-> LET aligned == find_corner_markers(im).found
                 IN  {<<C12_Number(cell), C12_LegacyCell(im, aligned, cell)>> :
                         cell \in C12_Cells}] :
        im \in OmrImages}

\* C12: c*15 + r + 1 maps the 90 cells one-to-one onto 1..90, and in both
\* strategies the i-th entry of the answers process_omr returns is the
\* classification of the cell numbered i.
C12_AnswersByQuestionNumber ==
    /\ {C12_Number(cell) : cell \in C12_Cells} = 1..90
    /\ Cardinality(C12_Cells) = 90
    /\ \A i \in Invocations :
          p_pc[i] = "done" =>
              LET e == CHOOSE t \in C12_Table : t.im = img
                  cells == IF p_res[i].method = "hough" THEN e.hough ELSE e.legacy
              IN  /\ DOMAIN p_res[i].answers = 1..90
                  /\ \A qa \in cells : p_res[i].answers[qa[1]] = qa[2]

\* a Hough result in which questions 1, 4 and 7 (cells (0,0), (0,3), (0,6))
\* have three different answers and question 19 is cell (1,3)
C12_Witness ==
    /\ p_pc[1] = "done"
    /\ p_res[1].method = "hough"
    /\ p_res[1].answers[1] # p_res[1].answers[4]
    /\ p_res[1].answers[4] # p_res[1].answers[7]
    /\ p_res[1].answers[1] # p_res[1].answers[7]
    /\ p_res[1].answers[19] = C12_HoughCell(img, <<1, 3>>)

\* C13 (as stated): in read_question, when the best darkness is not below
\* BLANK_THRESHOLD (rule 1) and the pair best/second is not a double mark
\* (rule 2), the result is the best option's letter whenever at least one of
\* diff >= RELATIVE_DIFF, best >= MARKED_THRESHOLD, diff >= 1.5 *
\* RELATIVE_DIFF holds, and None (BLANK) only when none of the three holds.
C13_Best == SetMax({c_dark[i] : i \in 1..NUM_OPTIONS})

C13_Second ==
    LET b == CHOOSE i \in 1..NUM_OPTIONS : c_dark[i] = C13_Best
    IN  SetMax({c_dark[i] : i \in (1..NUM_OPTIONS) \ {b}})

C13_Diff == C13_Best - C13_Second

C13_PastRules1And2 ==
    /\ c_pc = "done"
    /\ C13_Best >= BLANK_THRESHOLD * Unit
    /\ ~(/\ C13_Best >= MARKED_THRESHOLD * Unit
         /\ C13_Second >= (MARKED_THRESHOLD - 5) * Unit
         /\ C13_Diff < DOUBLE_MARK_DIFF * Unit)

C13_BestLetter ==
    /\ Cardinality({i \in 1..NUM_OPTIONS : c_dark[i] = C13_Best}) = 1
    /\ c_rq = OPTIONS[CHOOSE i \in 1..NUM_OPTIONS : c_dark[i] = C13_Best]

C13_LetterOnAnyCondition ==
    C13_PastRules1And2 =>
        LET any == \/ C13_Diff >= RELATIVE_DIFF * Unit
                   \/ C13_Best >= MARKED_THRESHOLD * Unit
                   \/ 2 * C13_Diff >= 3 * RELATIVE_DIFF * Unit
        IN  /\ any => C13_BestLetter
            /\ c_rq = "None" => ~any

\* C13 (amended): past rules 1 and 2 the result is the best option's letter
\* exactly when best >= MARKED_THRESHOLD or diff >= 1.5 * RELATIVE_DIFF, and
\* None otherwise; diff >= RELATIVE_DIFF counts only together with
\* best >= MARKED_THRESHOLD.
C13_LetterOnMarkedOrLightMark ==
    C13_PastRules1And2 =>
        LET any == \/ C13_Best >= MARKED_THRESHOLD * Unit
                   \/ 2 * C13_Diff >= 3 * RELATIVE_DIFF * Unit
        IN  /\ any => C13_BestLetter
            /\ ~any => c_rq = "None"

\* A light mark: best below MARKED_THRESHOLD, read by its lead alone.
C13_Witness ==
    /\ C13_PastRules1And2
    /\ C13_Best < MARKED_THRESHOLD * Unit
    /\ 2 * C13_Diff >= 3 * RELATIVE_DIFF * Unit
    /\ c_rq = "C"

\* what batch_process reports for file f whatever the other files are:
\* 'sucesso' or the code of its error entry
C14_Outcome(f) ==
    IF f.empty THEN "EMPTY_FILE"
    ELSE IF use_qr_module
    THEN IF \E k \in DOMAIN methods : Hit(method_func(f.im, methods[k]))
         THEN "sucesso" ELSE "QR_NOT_FOUND"
    ELSE LET r == read_qr_code_app(f.im, <<"full", "enhanced", "binary">>)
         IN  IF r.raised THEN "PROCESSING_ERROR"
             ELSE IF Truthy(r.code) THEN "sucesso" ELSE "QR_NOT_FOUND"

C14_EntryOutcome(e) == IF e.status = "sucesso" THEN "sucesso" ELSE e.code

\* C14: batch_process isolates per-item failures.  The results hold one
\* entry per image, in input order, with index equal to the image's
\* (0-based) position; every entry is what its own image determines (empty
\* file, missing QR, exception or success), whatever happened to the other
\* images; a failure never stops the later images, and in the summary
\* success + failed = processed = number of images.
C14_PerItemIsolation ==
    s_kind = "batch_process" =>
        /\ Len(s_results) = s_idx
        /\ s_idx <= Len(s_files)
        /\ s_success + s_failed = Len(s_results)
        /\ \A k \in DOMAIN s_results :
              /\ s_results[k].index = k - 1
              /\ C14_EntryOutcome(s_results[k]) = C14_Outcome(s_files[k])
        /\ s_success = Cardinality({k \in DOMAIN s_results :
                                       s_results[k].status = "sucesso"})
        /\ (s_pc = "done" /\ Len(s_files) > 0) =>
              /\ s_resp.status = "sucesso"
              /\ s_resp.results = s_results
              /\ Len(s_resp.results) = Len(s_files)
              /\ s_resp.processed = Len(s_files)
              /\ s_resp.success + s_resp.failed = s_resp.processed

\* an exception at the first image, the second one processed all the same
C14_Witness ==
    /\ s_kind = "batch_process"
    /\ s_pc = "done"
    /\ Len(s_files) = MaxBatch
    /\ s_resp.status = "sucesso"
    /\ s_resp.results[1].status = "erro"
    /\ s_resp.results[1].code = "PROCESSING_ERROR"
    /\ s_resp.results[MaxBatch].status = "sucesso"
    /\ s_resp.failed >= 1 /\ s_resp.success >= 1

\* C15: the sheet codes create_students_batch hands out are pairwise
\* distinct and distinct from the codes already registered: after the call
\* no two rows of the table carry the same sheet code.
C15_CodesDistinct ==
    g_pc = "done" =>
        /\ \A i, k \in DOMAIN g_ret :
              i # k => g_ret[i].sheet_code # g_ret[k].sheet_code
        /\ \A i, k \in DOMAIN g_table : i # k => g_table[i] # g_table[k]

\* C16: the generator and the fixed-grid reader use the same coordinates at
\* 150 DPI: the four marker positions, the bubble radius and, for every
\* column, row and option, the centre of the bubble drawn by
\* gabarito_generator equal the markers, BUBBLE_RADIUS and the full-page
\* nominal centre used by app.py.
C16_SameCoordinates ==
    l_pc = "done" =>
        /\ l_gen.markers = l_app.markers
        /\ l_gen.bubble.radius = l_app.bubble.radius
        /\ l_gen.bubble.centre = l_app.bubble.centre

\* the corner zones of find_corner_markers: whether square i of the image
\* lies in zone z
C17_InZone(z, i) ==
    LET c == a_img.squares[i].center
        left == 100 * c.x < 8 * a_img.w
        right == 100 * c.x > 92 * a_img.w
        top == 100 * c.y < 35 * a_img.h
        bottom == 100 * c.y > 60 * a_img.h
    IN  CASE z = "TL" -> top /\ left
          [] z = "TR" -> top /\ right
          [] z = "BL" -> bottom /\ left
          [] z = "BR" -> bottom /\ right

C17_Zones == {"TL", "TR", "BL", "BR"}

\* the squares that are among the 12 largest (of equal areas, the ones
\* that come first in the list)
C17_Largest12 ==
    LET sq == a_img.squares
    IN  {i \in DOMAIN sq :
            Cardinality({j \in DOMAIN sq :
                            \/ sq[j].area > sq[i].area
                            \/ (sq[j].area = sq[i].area /\ j < i)}) < 12}

\* C17 (as stated): find_corner_markers returns 'not found' exactly when
\* fewer than 4 square candidates pass the filter or one of the four corner
\* zones holds no candidate; otherwise it returns for each zone the centre
\* of a largest-area candidate of that zone.
C17_FoundIffEveryZoneHasCandidate ==
    a_pc # "in" /\ a_pc # "off" =>
        LET sq == a_img.squares
            zone(z) == {i \in DOMAIN sq : C17_InZone(z, i)}
        IN  /\ ~a_markers.found <=>
                  (Len(sq) < 4 \/ \E z \in C17_Zones : zone(z) = {})
            /\ a_markers.found =>
                  \A z \in C17_Zones :
                     \E i \in zone(z) :
                        /\ a_markers[z] = sq[i].center
                        /\ \A j \in zone(z) : sq[i].area >= sq[j].area

\* C17 (amended): only the 12 largest candidates count.  'not found' is
\* returned exactly when there are fewer than 4 candidates or one of the
\* corner zones holds none of the 12 largest; otherwise each zone gets the
\* centre of the largest of the 12 lying in it, the first in sorted order
\* among equals.
C17_FoundIffLargest12CoverZones ==
    a_pc # "in" /\ a_pc # "off" =>
        LET sq == a_img.squares
            zone(z) == {i \in C17_Largest12 : C17_InZone(z, i)}
        IN  /\ ~a_markers.found <=>
                  (Len(sq) < 4 \/ \E z \in C17_Zones : zone(z) = {})
            /\ a_markers.found =>
                  \A z \in C17_Zones :
                     \E i \in zone(z) :
                        /\ a_markers[z] = sq[i].center
                        /\ \A j \in zone(z) :
                              \/ sq[i].area > sq[j].area
                              \/ (sq[i].area = sq[j].area /\ i <= j)

\* 13 candidates, two of them in the top-left zone: the larger one is taken
C17_Witness ==
    /\ a_pc = "done"
    /\ Len(a_img.squares) > 12
    /\ a_markers.found
    /\ Cardinality({i \in DOMAIN a_img.squares : C17_InZone("TL", i)}) = 2
    /\ \E i \in DOMAIN a_img.squares :
          /\ a_img.squares[i].center = a_markers.TL
          /\ a_img.squares[i].area = 1200

C18_ScalesPositive ==
    /\ a_scale.x.num > 0 /\ a_scale.x.den > 0
    /\ a_scale.y.num > 0 /\ a_scale.y.den > 0

\* C18 (as stated): after deskew_image the image is REF_WIDTH x REF_HEIGHT
\* when aligned is True and has the size of the input when aligned is
\* False; scale_x and scale_y of process_omr_legacy are strictly positive;
\* aligned is True exactly when the four markers were found.
C18_CanonicalOrOriginalSize ==
    a_pc = "done" =>
        /\ a_cal.aligned => (a_cal.w = REF_WIDTH /\ a_cal.h = REF_HEIGHT)
        /\ ~a_cal.aligned => (a_cal.w = a_img.w /\ a_cal.h = a_img.h)
        /\ C18_ScalesPositive
        /\ a_cal.aligned <=> a_markers.found

\* the line-based fallback rotates: at least 5 lines, some angle near an
\* axis, and a median of 0.3 degrees or more
C18_Rotates ==
    /\ a_img.lines.count >= 5
    /\ a_img.lines.angles
    /\ (a_img.lines.median >= 30 \/ a_img.lines.median <= -30)

\* C18 (amended): the unaligned image has the size of the input only when
\* the line-based fallback does not rotate; when it rotates (by the median
\* angle clipped to 10 degrees) the image has the size of the rotated
\* canvas, int(h sin + w cos) x int(h cos + w sin), which is not the size
\* of the input.  The rest is as stated.
C18_CanonicalOriginalOrRotatedSize ==
    a_pc = "done" =>
        /\ a_cal.aligned => (a_cal.w = REF_WIDTH /\ a_cal.h = REF_HEIGHT)
        /\ (~a_cal.aligned /\ ~C18_Rotates)
              => (a_cal.w = a_img.w /\ a_cal.h = a_img.h)
        /\ (~a_cal.aligned /\ C18_Rotates)
              => LET a == IF a_img.lines.median < 0 THEN -a_img.lines.median
                          ELSE a_img.lines.median
                     t == Trig(IF a > 1000 THEN 1000 ELSE a)
                 IN  /\ a_cal.w = (a_img.h * t.sin + a_img.w * t.cos) \div 10000
                     /\ a_cal.h = (a_img.h * t.cos + a_img.w * t.sin) \div 10000
                     /\ <<a_cal.w, a_cal.h>> # <<a_img.w, a_img.h>>
        /\ C18_ScalesPositive
        /\ a_scale.x.den = (IF a_cal.aligned THEN REF_WIDTH ELSE REF_WIDTH_FULL)
        /\ a_scale.x.num = a_cal.w /\ a_scale.y.num = a_cal.h
        /\ a_cal.aligned <=> a_markers.found

\* markers found on a 300 DPI image: the aligned image is the canonical one
C18_Witness ==
    /\ a_pc = "done"
    /\ a_markers.found
    /\ a_cal.aligned
    /\ a_img.w = SIZE_300.w
    /\ a_cal.w = REF_WIDTH /\ a_cal.h = REF_HEIGHT
    /\ a_scale.x.num = a_scale.x.den /\ a_scale.y.num = a_scale.y.den

\* the offsets range(-search_range, search_range + 1, 5) of
\* analyze_bubble_with_search for scale `scale` (percent)
C19_Offsets(scale) ==
    LET search_range == (15 * scale) \div 100
    IN  {d \in (-search_range)..search_range : (d + search_range) % 5 = 0}

\* the ROI of radius r centred dy below the nominal centre does not touch
\* the top or bottom edge
C19_Inside(dy) ==
    LET r == (13 * BUBBLE_RADIUS * b_arg.scale) \div 1000
    IN  b_arg.y + dy - r >= 0 /\ b_arg.y + dy + r < b_arg.gray.h

\* C19 (as stated): analyze_bubble_with_search evaluates candidate centres
\* displaced from the nominal centre by step-sampled offsets in both x and
\* y, and returns the maximum darkness over the candidates of that window.
C19_MaxOverWindowInXAndY ==
    b_pc = "done" =>
        LET window == {<<dx, dy>> \in C19_Offsets(b_arg.scale)
                                        \X C19_Offsets(b_arg.scale) :
                          C19_Inside(dy)}
        IN  /\ window # {} =>
                  \E c \in window :
                     /\ b_ret = RoiDarkness(b_arg.gray, c[1], c[2])
                     /\ \A d \in window :
                           RoiDarkness(b_arg.gray, d[1], d[2]) <= b_ret
            /\ window = {} => b_ret = 0

\* C19 (amended): the candidate centres are displaced in y only, by the
\* offsets -search_range, -search_range + 5, ... up to search_range =
\* int(15 * scale_y), x staying nominal; candidates whose ROI would touch
\* the top or bottom edge are skipped; the value returned is the maximum
\* darkness over the candidates evaluated, 0 when there is none.
C19_MaxOverVerticalOffsets ==
    b_pc = "done" =>
        LET window == {dy \in C19_Offsets(b_arg.scale) : C19_Inside(dy)}
        IN  /\ window # {} =>
                  \E c \in window :
                     /\ b_ret = RoiDarkness(b_arg.gray, 0, c)
                     /\ \A d \in window :
                           RoiDarkness(b_arg.gray, 0, d) <= b_ret
            /\ window = {} => b_ret = 0

\* a mark 15 pixels below the nominal centre is found by the search
C19_Witness ==
    /\ b_pc = "done"
    /\ b_arg.gray.bx = 0 /\ b_arg.gray.by = 15
    /\ b_arg.gray.peak > b_arg.gray.base
    /\ b_ret = b_arg.gray.peak

(***************************************************************************)
(* C20: concurrent invocations of the /process-image handlers              *)
(***************************************************************************)
\* the response invocation i gets when it is the only request: it depends
\* on the server, on the importability of the Hough reader and on the
\* invocation's own upload only (elapsed time left out)
C20_Alone(i) ==
    IF k_host = "modal" THEN PiError
    ELSE LET result == hough_process_omr(k_file[i])
         IN  IF k_importable /\ ~result.raised /\ result.success
             THEN PiResponse(HoughReturn(result, 0))
             ELSE PiResponse(LegacyReturn(k_file[i], 0))

C21_RegistryAlphabet == {SHEET_CODE_CHARS[k] : k \in DOMAIN SHEET_CODE_CHARS}

\* C21: validate_sheet_code accepts a code if and only if it is 'XTRI-'
\* followed by 6 characters that all belong to the alphabet the registry
\* generates from (capital letters without I, L and O, digits 2 to 9).
C21_AcceptsExactlyRegistryAlphabet ==
    v_pc = "done" =>
        (v_app <=>
            /\ ~v_code.none
            /\ Len(v_code.text) = Len(XTRI_PREFIX) + CODE_LEN
            /\ SubSeq(v_code.text, 1, Len(XTRI_PREFIX)) = XTRI_PREFIX
            /\ \A i \in 1..CODE_LEN :
                  v_code.text[Len(XTRI_PREFIX) + i] \in C21_RegistryAlphabet)

(***************************************************************************)
(* C22: the filter of detect_bubbles                                       *)
(***************************************************************************)
C22_Markers == find_grid_markers(d_im)
C22_Margin == XtriScaled(d_im, 20)
C22_Probe == ProbeCircle(d_im)
C22_WithoutProbe == [d_im EXCEPT !.circ = "nominal"]

\* the circle lies between the left and the right marker enlarged by the
\* margin
C22_InsideLeftRight ==
    /\ C22_Markers.TL.x - C22_Margin < C22_Probe.x
    /\ C22_Probe.x < C22_Markers.TR.x + C22_Margin

\* C22 as stated: the filter keeps a circle if and only if its centre lies
\* inside the marker rectangle enlarged by the margin on the left, on the
\* right, at the top and at the bottom.
C22_MarginOnEverySide ==
    d_pc = "done" /\ d_im.circ = "probe" =>
        (d_kept <=>
            /\ C22_InsideLeftRight
            /\ C22_Markers.TL.y - C22_Margin < C22_Probe.y
            /\ C22_Probe.y < C22_Markers.BL.y + C22_Margin)

\* C22 amended: the filter keeps a circle if and only if its centre lies
\* strictly between the left and right markers enlarged by the margin and
\* strictly between the top marker itself (no margin) and the bottom marker
\* enlarged by the margin; a circle it does not keep takes no part in the
\* rows: the rows and the list returned are those of the sheet without it.
C22_MarginOnThreeSides ==
    d_pc = "done" /\ d_im.circ = "probe" =>
        /\ d_kept <=>
              /\ C22_InsideLeftRight
              /\ C22_Markers.TL.y < C22_Probe.y
              /\ C22_Probe.y < C22_Markers.BL.y + C22_Margin
        /\ ~d_kept /\ d_im.missing = {} =>
              /\ d_grid = 450
              /\ d_ret = detect_bubbles(C22_WithoutProbe, C22_Markers)

\* C22 witness: a circle in the band of one margin above the top markers,
\* between the left and right markers, is not kept, and the 90 questions of
\* the sheet are mapped as if it were not there.
C22_Witness ==
    /\ d_pc = "done" /\ d_im.circ = "probe" /\ d_im.missing = {}
    /\ C22_InsideLeftRight
    /\ C22_Markers.TL.y - C22_Margin < C22_Probe.y
    /\ C22_Probe.y < C22_Markers.TL.y
    /\ ~d_kept
    /\ Len(d_ret) = 90

(***************************************************************************)
(* C26: when the detected-grid strategy succeeds                           *)
(***************************************************************************)
\* detect_bubbles returned 90 questions, each with exactly 5 options
\* labelled A..E in ascending x order
C26_Success ==
    /\ Len(d_ret) = 90
    /\ \A q \in DOMAIN d_ret :
          /\ d_ret[q].question = q
          /\ Len(d_ret[q].options) = 5
          /\ \A i \in 1..5 : d_ret[q].options[i].option = OPTIONS[i]
          /\ \A i \in 1..4 : d_ret[q].options[i].x <= d_ret[q].options[i + 1].x

\* C26: detect_bubbles succeeds only if exactly 450 circles lie inside the
\* grid bounds, grouped into exactly 15 rows of exactly 30; with any other
\* number of circles inside the bounds (400 to 449 included) it does not
\* return 90 questions, which process_answer_sheet reports as a failure.
C26_SuccessOnlyWith450 ==
    d_pc = "done" =>
        /\ C26_Success =>
              /\ d_grid = 450
              /\ d_rows = [j \in 1..15 |-> 30]
        /\ d_grid # 450 => Len(d_ret) # 90 /\ ~C26_Success

\* C26 witness: 450 circles inside the bounds in 15 rows of 30 (one of them
\* not a printed bubble) and the 90 questions are returned.
C26_Witness ==
    /\ d_pc = "done"
    /\ d_im.circ = "probe" /\ d_im.missing # {} /\ d_kept
    /\ d_grid = 450
    /\ C26_Success

(***************************************************************************)
(* C23: read_question against detect_answer                                *)
(***************************************************************************)
\* the outcome of detect_answer in the terms of read_question: the letter,
\* 'X' for a double mark (answer None with the warning), None for blank
C23_DetectOutcome ==
    IF c_da.answer # "None" THEN c_da.answer
    ELSE IF c_da.warning = "double_mark" THEN "X"
    ELSE "None"

\* the two largest of the 5 darkness values
C23_Best == SetMax({c_dark[i] : i \in DOMAIN c_dark})
C23_Second ==
    SetMax({c_dark[i] : i \in DOMAIN c_dark
               \ {CHOOSE j \in DOMAIN c_dark : c_dark[j] = C23_Best}})

\* C23 as stated: for every tuple of 5 darkness values read_question and
\* detect_answer produce the same outcome (the same letter, BLANK in both
\* or DOUBLE in both).
C23_Interchangeable ==
    c_pc = "done" => c_rq = C23_DetectOutcome

\* C23 amended: the two classifiers agree where their thresholds do: BLANK
\* in both when the best darkness is below BLANK_THRESHOLD; the same letter
\* when the best darkness is at least FILL_THRESHOLD and the second is
\* below MARKED_THRESHOLD - 5; DOUBLE in both when the best is at least
\* FILL_THRESHOLD, the second at least FILL_THRESHOLD - 5 and they differ
\* by less than DOUBLE_MARK_DIFF.
C23_AgreeWhereThresholdsDo ==
    c_pc = "done" =>
        /\ C23_Best < BLANK_THRESHOLD * Unit =>
              c_rq = "None" /\ C23_DetectOutcome = "None"
        /\ /\ C23_Best >= FILL_THRESHOLD * Unit
           /\ C23_Second < (MARKED_THRESHOLD - 5) * Unit
           => /\ c_rq = C23_DetectOutcome
              /\ c_rq \in {OPTIONS[i] : i \in DOMAIN OPTIONS}
        /\ /\ C23_Best >= FILL_THRESHOLD * Unit
           /\ C23_Second >= (FILL_THRESHOLD - 5) * Unit
           /\ C23_Best - C23_Second < DOUBLE_MARK_DIFF * Unit
           => c_rq = "X" /\ C23_DetectOutcome = "X"

\* C23 witness: two bubbles at 40% and 38% are a double mark for both
\* classifiers.
C23_Witness ==
    /\ c_pc = "done"
    /\ C23_Best = FILL_THRESHOLD * Unit
    /\ C23_Second = MARKED_THRESHOLD * Unit
    /\ c_rq = "X"
    /\ c_da.warning = "double_mark"

(***************************************************************************)
(* C24: the classifier of diagnose_image against read_question             *)
(***************************************************************************)
\* C24: for every tuple of 5 darkness values diagnose_image classifies the
\* question as BLANK, DOUBLE or the letter L exactly when read_question
\* returns None, 'X' or L.
C24_DiagnoseMatchesReadQuestion ==
    c_pc = "done" =>
        /\ (c_dg = "BLANK") <=> (c_rq = "None")
        /\ (c_dg = "DOUBLE") <=> (c_rq = "X")
        /\ c_dg \notin {"BLANK", "DOUBLE"} => c_dg = c_rq
        /\ c_rq \notin {"None", "X"} => c_dg = c_rq

\* C24 witness: best and second both clear the double-mark thresholds but
\* differ by DOUBLE_MARK_DIFF or more: diagnose_image takes the letter in
\* its double-mark branch, read_question falls through to its later rules,
\* and both give the same letter.
C24_Witness ==
    /\ c_pc = "done"
    /\ C23_Best >= MARKED_THRESHOLD * Unit
    /\ C23_Second >= (MARKED_THRESHOLD - 5) * Unit
    /\ C23_Best - C23_Second >= DOUBLE_MARK_DIFF * Unit
    /\ c_dg = c_rq
    /\ c_rq \in {OPTIONS[i] : i \in DOMAIN OPTIONS}

(***************************************************************************)
(* C30: invariants of read_question                                        *)
(***************************************************************************)
\* the label of the first option, in A..E order, with maximal darkness
C30_FirstDarkest ==
    OPTIONS[CHOOSE i \in DOMAIN c_dark :
               /\ c_dark[i] = C23_Best
               /\ \A j \in DOMAIN c_dark : c_dark[j] = C23_Best => i <= j]

\* C30: (1) a letter read_question returns is the label of an option with
\* maximal darkness, the earliest in A..E order on ties; (2) the result is
\* never BLANK when the best darkness is >= MARKED_THRESHOLD and never a
\* letter or DOUBLE when it is < BLANK_THRESHOLD; (3) DOUBLE is returned
\* only if best >= MARKED_THRESHOLD, second >= MARKED_THRESHOLD - 5 and
\* best - second < DOUBLE_MARK_DIFF.
C30_ReadQuestionInvariants ==
    c_pc = "done" =>
        /\ c_rq \notin {"None", "X"} => c_rq = C30_FirstDarkest
        /\ C23_Best >= MARKED_THRESHOLD * Unit => c_rq # "None"
        /\ C23_Best < BLANK_THRESHOLD * Unit => c_rq = "None"
        /\ c_rq = "X" =>
              /\ C23_Best >= MARKED_THRESHOLD * Unit
              /\ C23_Second >= (MARKED_THRESHOLD - 5) * Unit
              /\ C23_Best - C23_Second < DOUBLE_MARK_DIFF * Unit

\* C30 witness: a light mark (best below MARKED_THRESHOLD) on an option
\* other than A, the only darkest one, is returned as its letter.
C30_Witness ==
    /\ c_pc = "done"
    /\ Cardinality({i \in DOMAIN c_dark : c_dark[i] = C23_Best}) = 1
    /\ c_dark[1] # C23_Best
    /\ C23_Best < MARKED_THRESHOLD * Unit
    /\ c_rq = C30_FirstDarkest

(***************************************************************************)
(* C25: the counts of a result against its answers                         *)
(***************************************************************************)
\* C25: in every result process_omr returns, by either path, double_marked
\* is the number of answers equal to 'X', blank the number of answers equal
\* to None, and answered the number of answers that are a letter A..E.
C25_CountsAgreeWithAnswers ==
    \A i \in Invocations :
        p_pc[i] = "done" =>
            /\ p_res[i].double_marked = Count(p_res[i].answers, {"X"})
            /\ p_res[i].blank = Count(p_res[i].answers, {"None"})
            /\ p_res[i].answered =
                  Count(p_res[i].answers, {OPTIONS[o] : o \in DOMAIN OPTIONS})

(***************************************************************************)
(* C27: the search against the nominal centre                              *)
(***************************************************************************)
\* the image height and scale factor are ones process_omr_legacy reaches:
\* the rectified image with scale 1, or an image that was not aligned with
\* scale_y = h / 1753
C27_Reached ==
    \/ b_arg.gray.h = REF_HEIGHT /\ b_arg.scale = 100
    \/ b_arg.scale = (b_arg.gray.h * 100) \div REF_HEIGHT_FULL

\* C27: for every image size and scale factor process_omr_legacy reaches,
\* the darkness analyze_bubble_with_search returns lies in 0..100 and, when
\* the nominal window lies inside the image, is at least the darkness
\* measured at the nominal centre.
C27_AtLeastNominalDarkness ==
    b_pc = "done" /\ C27_Reached =>
        /\ b_ret \in 0..(100 * Unit)
        /\ C19_Inside(0) => b_ret >= RoiDarkness(b_arg.gray, 0, 0)

(***************************************************************************)
(* C28: the identity code of what is saved                                 *)
(***************************************************************************)
\* C28: in every execution of process_sheet and of batch_process,
\* save_omr_result is called only with a sheet_code that
\* validate_sheet_code accepts.
C28_SavedOnlyUnderValidCode ==
    \A k \in DOMAIN s_saved :
        /\ validate_sheet_code_app(s_saved[k].sheet_code)
        /\ validate_sheet_code_qr(s_saved[k].sheet_code)

(***************************************************************************)
(* C29: the round trip from the generators to validate_sheet_code          *)
(***************************************************************************)
\* C29: every sheet code a generator produces, generate_sheet_code of
\* app.py (registry) and generate_sheet_code of gabarito_generator.py
\* (printed sheets), is accepted by validate_sheet_code.
C29_GeneratedCodesAccepted ==
    r_pc = "done" => r_app /\ r_qr

====
